---- MODULE Spec2Model ----
(***************************************************************************)
(* Model of agents-lint: the transcript parser (internal/transcript), the  *)
(* policy checkers and their registry (internal/checker), and the exit     *)
(* code of the check command (cmd/agents-lint).                            *)
(*                                                                         *)
(* The Check(t) of commit-after-edit and exponential-backoff is a scan     *)
(* over t.ToolCalls.  The scan is modelled                                 *)
(* one loop iteration per action: the action reads the next element of     *)
(* t.ToolCalls (appended to toolCalls, which therefore holds the part of   *)
(* the transcript scanned so far) and runs the whole loop body on it.  The *)
(* Finish action is the code after the loop; after it toolCalls is the     *)
(* whole transcript and violations is the value Check returns.             *)
(*                                                                         *)
(* Shell commands are sequences of whitespace-separated words; a regular   *)
(* expression of the source is matched on the words.  Indices are 0-based  *)
(* as in the source; a ToolCall's EventUUID is its 0-based index (every    *)
(* tool call sits in an assistant event of its own), its ID is given by    *)
(* the transcript and need not be unique across events.                    *)
(***************************************************************************)
EXTENDS Integers, Sequences, FiniteSets

VARIABLES
    checker,                    \* id of the checker whose Check is running
    MaxToolCallsBeforeCommit,   \* CommitAfterEdit.MaxToolCallsBeforeCommit
    toolCalls,                  \* t.ToolCalls, as far as the scan has read
    pc,                         \* "scan": in the range loop, "input"/"build": the
                                \* input is being given, "done": returned
    pendingEdits,               \* CommitAfterEdit.Check: pendingEdits
    violations,                 \* Check: violations
    sleeps,                     \* ExponentialBackoff.Check: sleeps
    lastCommand,                \* ExponentialBackoff.Check: lastCommand
    lastCommandWasPolling,      \* ExponentialBackoff.Check: lastCommandWasPolling
    data,                       \* ParseBytes: the input, line by line
    t,                          \* the Transcript parsed or checked, or Nil
    err,                        \* ParseBytes: the error returned, or Nil
    registry,                   \* package checker: registry, id -> Checker
    registryMu,                 \* package checker: registryMu, who holds it
    goroutines,                 \* the calls in progress on the registry
    panicked,                   \* the value of an unrecovered panic, or Nil
    call,                       \* the last call made, with its arguments
    returned,                   \* what the last call returned
    worktreeCreated,            \* ParallelWorktree.Check: worktreeCreated
    runs,                       \* the Check calls that have returned
    executed                    \* Runner.Run: the commands run so far, in order

vars == <<checker, MaxToolCallsBeforeCommit, toolCalls, pc, pendingEdits,
          violations, sleeps, lastCommand, lastCommandWasPolling, data, t, err,
          registry, registryMu, goroutines, panicked, call, returned,
          worktreeCreated, runs, executed>>

checkerVars == <<checker, MaxToolCallsBeforeCommit, toolCalls, pc, pendingEdits,
                 violations, sleeps, lastCommand, lastCommandWasPolling>>

transcriptVars == <<data, t, err>>

registryVars == <<registry, registryMu, goroutines, panicked, call, returned>>

runVars == <<worktreeCreated, runs, executed>>

(***************************************************************************)
(* Bounds of the model.                                                    *)
(***************************************************************************)
MaxCaeCalls == 5
MaxBoCalls == 6
MaxLines == 4
MaxContentLines == 2
MaxBlocks == 2
MaxCqEvents == 4
MaxUaEvents == 4
MaxCrEvents == 3
MaxNtCalls == 4
MaxEbLines == 4
MaxCommands == 2
MaxPwCalls == 4
MaxRuns == 3
MaxIDs == 2
MaxGoroutines == 3

\* Go's nil, for a *Transcript and for an error
Nil == [nil |-> TRUE]

\* make(map[string]Checker)
EmptyRegistry == <<>>

\* a sync.RWMutex nobody holds
Unlocked == [writer |-> {}, readers |-> {}]

\* The registry as a run that does not use it leaves it, and the state of
\* the variables of the checkers that are not running.
RegistryUntouched ==
    /\ registry = EmptyRegistry
    /\ registryMu = Unlocked
    /\ goroutines = <<>>
    /\ panicked = Nil
    /\ call = Nil
    /\ returned = Nil

NoRuns ==
    /\ worktreeCreated = FALSE
    /\ runs = <<>>
    /\ executed = <<>>

(***************************************************************************)
(* Tool inputs.  Input.ok = FALSE is a raw input json.Unmarshal rejects    *)
(* (for instance {"command": 5}).                                          *)
(***************************************************************************)
NoInput == [ok |-> TRUE, command |-> <<>>]
BadInput == [ok |-> FALSE, command |-> <<>>]
Cmd(words) == [ok |-> TRUE, command |-> words]

CommitAfterEditID == "commit-after-edit"
ExponentialBackoffID == "exponential-backoff"

\* Severity: SeverityInfo = 0 < SeverityWarning = 1 < SeverityError = 2
SeverityWarning == 1

\* Position of a tool call in t.ToolCalls (0-based) to position in toolCalls.
At(k) == toolCalls[k + 1]

(***************************************************************************)
(* commit_after_edit.go                                                    *)
(***************************************************************************)
editTools == {"Edit", "Write", "NotebookEdit"}

\* regexp `git\s+commit`, matched anywhere in the command
gitCommitCmdPattern(command) ==
    \E j \in 1..(Len(command) - 1) :
        command[j] = "git" /\ command[j + 1] = "commit"

DefaultWindow == 15

maxCallsOf(field) == IF field = 0 THEN DefaultWindow ELSE field

maxCalls == maxCallsOf(MaxToolCallsBeforeCommit)

\* string(rune('0' + n)): the character whose code point is 48 + n
RuneOfDigit(n) == 48 + n

WindowViolation(edit, i, mc) ==
    [CheckerID |-> CommitAfterEditID,
     Rule |-> "Rule 6",
     Severity |-> SeverityWarning,
     Message |-> "File edit not followed by git commit within reasonable window",
     EventUUID |-> edit.eventUUID,
     ToolCallID |-> edit.toolCallID,
     Context |-> [tool |-> edit.toolName,
                  calls_since |-> RuneOfDigit(i - edit.index),
                  max_calls |-> RuneOfDigit(mc)]]

EndViolation(edit) ==
    [CheckerID |-> CommitAfterEditID,
     Rule |-> "Rule 6",
     Severity |-> SeverityWarning,
     Message |-> "File edit not committed by end of session",
     EventUUID |-> edit.eventUUID,
     ToolCallID |-> edit.toolCallID,
     Context |-> [tool |-> edit.toolName]]

\* A Go slice is a window arr[0:len] on a backing array.  pendingEdits is
\* always the first len elements of its backing array, so a slice value is
\* the pair [arr, len].
SliceOf(s) == SubSeq(s.arr, 1, s.len)

removeEditNoop(s, id) == s

\* removeEdit: append(edits[:i], edits[i+1:]...) moves the elements after
\* the first match one place down IN the backing array and returns the
\* slice shortened by one; the array's old last slot keeps its value.
removeEdit(s, id) ==
    IF \E j \in 1..s.len : s.arr[j].toolCallID = id
    THEN LET j == CHOOSE m \in 1..s.len :
                      /\ s.arr[m].toolCallID = id
                      /\ \A n \in 1..(m - 1) : s.arr[n].toolCallID # id
         IN [arr |-> [m \in 1..Len(s.arr) |->
                         IF m >= j /\ m < s.len THEN s.arr[m + 1] ELSE s.arr[m]],
             len |-> s.len - 1]
    ELSE s

IsTooOld(i, edit, mc) == i - edit.index > mc

\* for _, edit := range pendingEdits { ... }: the range expression is
\* evaluated once, so the loop visits slots 1..n of the backing array,
\* n the length pendingEdits had when the loop started, and reads each
\* slot when it gets there, after the removals made so far.
RECURSIVE RangePending(_, _, _, _, _, _)
RangePending(s, k, n, viols, i, mc) ==
    IF k > n THEN [pending |-> SliceOf(s), violations |-> viols]
    ELSE LET edit == s.arr[k] IN
         IF IsTooOld(i, edit, mc)
         THEN RangePending(removeEdit(s, edit.toolCallID), k + 1, n,
                           Append(viols, WindowViolation(edit, i, mc)), i, mc)
         ELSE RangePending(s, k + 1, n, viols, i, mc)

AfterCommitLastOnly(pending) ==
    IF pending = <<>> THEN <<>> ELSE SubSeq(pending, 1, Len(pending) - 1)

AfterCommitKeep(pending) == pending

\* pendingEdits = nil
AfterCommit(pending) == <<>>

\* The tool calls the commit-after-edit scans are drawn from.  A call's id
\* goes with its kind: a transcript that uses three different edit tools
\* has pairwise distinct edit ids, one that repeats a tool repeats an id
\* (ids are unique only within one assistant message).
CaeInputs ==
    { [Name |-> "Edit", ID |-> "t1", Input |-> NoInput],
      [Name |-> "Write", ID |-> "t2", Input |-> NoInput],
      [Name |-> "NotebookEdit", ID |-> "t3", Input |-> NoInput],
      [Name |-> "Bash", ID |-> "t4", Input |-> Cmd(<<"git", "commit", "-m", "x">>)],
      [Name |-> "Bash", ID |-> "t5", Input |-> Cmd(<<"ls">>)],
      [Name |-> "Bash", ID |-> "t6", Input |-> BadInput],
      [Name |-> "Read", ID |-> "t7", Input |-> NoInput] }

Windows == {0, 1, 2}

ToolCall(inp, i) ==
    [ID |-> inp.ID, Name |-> inp.Name, Input |-> inp.Input, EventUUID |-> i]

\* One iteration of the loop of CommitAfterEdit.Check, on tool call tc at
\* index i.
CaeBody(i, tc) ==
    IF tc.Name \in editTools
    THEN /\ pendingEdits' = Append(pendingEdits,
                                   [toolCallID |-> tc.ID, eventUUID |-> tc.EventUUID,
                                    toolName |-> tc.Name, index |-> i])
         /\ UNCHANGED violations
    ELSE IF tc.Name = "Bash" /\ ~tc.Input.ok
    THEN UNCHANGED <<pendingEdits, violations>>
    ELSE IF tc.Name = "Bash" /\ gitCommitCmdPattern(tc.Input.command)
    THEN /\ pendingEdits' = AfterCommit(pendingEdits)
         /\ UNCHANGED violations
    ELSE LET r == RangePending([arr |-> pendingEdits, len |-> Len(pendingEdits)],
                               1, Len(pendingEdits), violations, i, maxCalls)
         IN /\ pendingEdits' = r.pending
            /\ violations' = r.violations

CaeStep ==
    /\ checker = CommitAfterEditID
    /\ pc = "scan"
    /\ Len(toolCalls) < MaxCaeCalls
    /\ \E inp \in CaeInputs :
          LET i == Len(toolCalls)
              tc == ToolCall(inp, i)
          IN /\ toolCalls' = Append(toolCalls, tc)
             /\ CaeBody(i, tc)
    /\ UNCHANGED transcriptVars
    /\ UNCHANGED <<checker, MaxToolCallsBeforeCommit, pc, sleeps, lastCommand,
                   lastCommandWasPolling>>
    /\ UNCHANGED <<registryVars, runVars>>

\* The code after the loop: one violation per edit still pending.
CaeFinish ==
    /\ checker = CommitAfterEditID
    /\ pc = "scan"
    /\ violations' = violations \o
                     [n \in 1..Len(pendingEdits) |-> EndViolation(pendingEdits[n])]
    /\ pc' = "done"
    /\ UNCHANGED transcriptVars
    /\ UNCHANGED <<checker, MaxToolCallsBeforeCommit, toolCalls, pendingEdits,
                   sleeps, lastCommand, lastCommandWasPolling>>
    /\ UNCHANGED <<registryVars, runVars>>

InitCae ==
    /\ checker = CommitAfterEditID
    /\ MaxToolCallsBeforeCommit \in Windows
    /\ toolCalls = <<>>
    /\ pc = "scan"
    /\ pendingEdits = <<>>
    /\ violations = <<>>
    /\ sleeps = <<>>
    /\ lastCommand = <<>>
    /\ lastCommandWasPolling = FALSE
    /\ data = <<>>
    /\ t = Nil
    /\ err = Nil
    /\ RegistryUntouched
    /\ NoRuns

NextCae == CaeStep \/ CaeFinish

SpecCae == InitCae /\ [][NextCae]_vars

(***************************************************************************)
(* single_line_commit.go: ExponentialBackoff                               *)
(***************************************************************************)
\* strconv.Atoi on the digit strings the model's commands use
Atoi ==
    [w \in {"5", "10", "60", "120"} |->
        CASE w = "5" -> 5 [] w = "10" -> 10 [] w = "60" -> 60 [] w = "120" -> 120]

IsDigits(w) == w \in DOMAIN Atoi

\* regexp `\bsleep\s+(\d+)`: the positions of the command where it matches
sleepPattern(command) ==
    {j \in 1..(Len(command) - 1) : command[j] = "sleep" /\ IsDigits(command[j + 1])}

\* FindStringSubmatch returns the leftmost match; matches[1] is the number
FindStringSubmatch(command) ==
    LET j == CHOOSE m \in sleepPattern(command) :
                 \A n \in sleepPattern(command) : m <= n
    IN command[j + 1]

monitoringCommands ==
    { <<"kubectl", "get">>, <<"kubectl", "describe">>, <<"docker", "ps">>,
      <<"docker", "logs">>, <<"git", "status">>, <<"ps", "aux">>, <<"tail", "-f">> }

\* cmd[:len(prefix)] == prefix
isMonitoringCommand(command) ==
    \E prefix \in monitoringCommands :
        /\ Len(command) >= Len(prefix)
        /\ SubSeq(command, 1, Len(prefix)) = prefix

isBashOutputCheck(tc) == tc.Name = "BashOutput"

BashOutputMarker == <<"BashOutput">>

\* The two violations of the analysis (messages without their trailing
\* parenthesised example).
ConstantSleepViolation(tc) ==
    [CheckerID |-> ExponentialBackoffID,
     Rule |-> "Rule 7",
     Severity |-> SeverityWarning,
     Message |-> "Monitoring loop detected with constant sleep; use exponential backoff",
     EventUUID |-> tc.EventUUID,
     ToolCallID |-> tc.ID]

DecreasedSleepViolation(tc) ==
    [CheckerID |-> ExponentialBackoffID,
     Rule |-> "Rule 7",
     Severity |-> SeverityWarning,
     Message |-> "Sleep duration decreased; exponential backoff should increase",
     EventUUID |-> tc.EventUUID,
     ToolCallID |-> tc.ID]

LastAfterSleepKeep(last, command) == last

\* lastCommand = input.Command after a captured sleep
LastAfterSleep(last, command) == command

\* One iteration of the loop of ExponentialBackoff.Check on tool call tc.
BoBody(tc) ==
    IF tc.Name = "Bash"
    THEN IF ~tc.Input.ok
         THEN UNCHANGED <<sleeps, lastCommand, lastCommandWasPolling>>
         ELSE LET command == tc.Input.command IN
              IF sleepPattern(command) # {}
              THEN /\ sleeps' = Append(sleeps,
                                  [duration |-> Atoi[FindStringSubmatch(command)],
                                   toolCall |-> tc,
                                   prevCmd |-> IF lastCommand = <<>>
                                               THEN command ELSE lastCommand])
                   /\ lastCommand' = LastAfterSleep(lastCommand, command)
                   /\ UNCHANGED lastCommandWasPolling
              ELSE /\ lastCommand' = command
                   /\ lastCommandWasPolling' = isMonitoringCommand(command)
                   /\ UNCHANGED sleeps
    ELSE IF isBashOutputCheck(tc)
    THEN /\ lastCommand' = BashOutputMarker
         /\ lastCommandWasPolling' = TRUE
         /\ UNCHANGED sleeps
    ELSE UNCHANGED <<sleeps, lastCommand, lastCommandWasPolling>>

SleepCap == 60

SameSignatureAlways(sl) == TRUE

DecreasesStrictCap(sl) ==
    {n \in 2..Len(sl) :
        /\ ~(sl[n - 1].duration > SleepCap /\ sl[n].duration > SleepCap)
        /\ sl[n].duration < sl[n - 1].duration}

DecreasesNoCap(sl) ==
    {n \in 2..Len(sl) : sl[n].duration < sl[n - 1].duration}

\* isMonitoringLoop: every captured sleep follows the same command
SameSignature(sl) == \A n \in 1..Len(sl) : sl[n].prevCmd = sl[1].prevCmd

\* isConstant
IsConstant(sl) == \A n \in 2..Len(sl) : sl[n].duration = sl[1].duration

\* The pairs (i-1, i) at which the backoff loop appends a violation
Decreases(sl) ==
    {n \in 2..Len(sl) :
        /\ ~(sl[n - 1].duration >= SleepCap /\ sl[n].duration >= SleepCap)
        /\ sl[n].duration < sl[n - 1].duration}

ReportedSleepFirst(sl) == sl[1]

\* sleeps[2], the third captured sleep
ReportedSleep(sl) == sl[3]

BoAnalyzeFromTwo(sl) ==
    IF Len(sl) >= 2
    THEN IF ~SameSignature(sl) THEN <<>>
         ELSE IF IsConstant(sl)
         THEN << ConstantSleepViolation(sl[2].toolCall) >>
         ELSE IF Decreases(sl) # {}
         THEN LET n == CHOOSE m \in Decreases(sl) : \A o \in Decreases(sl) : m <= o
              IN << DecreasedSleepViolation(sl[n].toolCall) >>
         ELSE <<>>
    ELSE <<>>

\* The analysis after the loop: the violations Check returns.
BoAnalyze(sl) ==
    IF Len(sl) >= 3
    THEN IF ~SameSignature(sl) THEN <<>>
         ELSE IF IsConstant(sl)
         THEN << ConstantSleepViolation(ReportedSleep(sl).toolCall) >>
         ELSE IF Decreases(sl) # {}
         THEN LET n == CHOOSE m \in Decreases(sl) : \A o \in Decreases(sl) : m <= o
              IN << DecreasedSleepViolation(sl[n].toolCall) >>
         ELSE <<>>
    ELSE <<>>

\* The tool calls the exponential-backoff scans are drawn from.
BoInputs ==
    { [Name |-> "Bash", ID |-> "b1", Input |-> Cmd(<<"kubectl", "get", "pods">>)],
      [Name |-> "Bash", ID |-> "b2", Input |-> Cmd(<<"sleep", "5">>)],
      [Name |-> "Bash", ID |-> "b3", Input |-> Cmd(<<"make", "&&", "sleep", "10">>)],
      [Name |-> "BashOutput", ID |-> "b4", Input |-> NoInput],
      [Name |-> "Bash", ID |-> "b5", Input |-> BadInput],
      [Name |-> "Bash", ID |-> "b6", Input |-> Cmd(<<>>)],
      [Name |-> "Read", ID |-> "b7", Input |-> NoInput] }

BoStep ==
    /\ checker = ExponentialBackoffID
    /\ pc = "scan"
    /\ Len(toolCalls) < MaxBoCalls
    /\ \E inp \in BoInputs :
          LET tc == ToolCall(inp, Len(toolCalls))
          IN /\ toolCalls' = Append(toolCalls, tc)
             /\ BoBody(tc)
    /\ UNCHANGED transcriptVars
    /\ UNCHANGED <<checker, MaxToolCallsBeforeCommit, pc, pendingEdits, violations>>
    /\ UNCHANGED <<registryVars, runVars>>

BoFinish ==
    /\ checker = ExponentialBackoffID
    /\ pc = "scan"
    /\ violations' = BoAnalyze(sleeps)
    /\ pc' = "done"
    /\ UNCHANGED transcriptVars
    /\ UNCHANGED <<checker, MaxToolCallsBeforeCommit, toolCalls, pendingEdits,
                   sleeps, lastCommand, lastCommandWasPolling>>
    /\ UNCHANGED <<registryVars, runVars>>

InitBo ==
    /\ checker = ExponentialBackoffID
    /\ MaxToolCallsBeforeCommit = 0
    /\ toolCalls = <<>>
    /\ pc = "scan"
    /\ pendingEdits = <<>>
    /\ violations = <<>>
    /\ sleeps = <<>>
    /\ lastCommand = <<>>
    /\ lastCommandWasPolling = FALSE
    /\ data = <<>>
    /\ t = Nil
    /\ err = Nil
    /\ RegistryUntouched
    /\ NoRuns

NextBo == BoStep \/ BoFinish

SpecBo == InitBo /\ [][NextBo]_vars

\* Tool calls for scans whose sleeps reach the 60s cap.
BoCapInputs ==
    { [Name |-> "Bash", ID |-> "c1", Input |-> Cmd(<<"kubectl", "get", "pods">>)],
      [Name |-> "Bash", ID |-> "c2", Input |-> Cmd(<<"sleep", "5">>)],
      [Name |-> "Bash", ID |-> "c3", Input |-> Cmd(<<"sleep", "10">>)],
      [Name |-> "Bash", ID |-> "c4", Input |-> Cmd(<<"sleep", "60">>)],
      [Name |-> "Bash", ID |-> "c5", Input |-> Cmd(<<"sleep", "120">>)] }

BoCapStep ==
    /\ checker = ExponentialBackoffID
    /\ pc = "scan"
    /\ Len(toolCalls) < MaxBoCalls
    /\ \E inp \in BoCapInputs :
          LET tc == ToolCall(inp, Len(toolCalls))
          IN /\ toolCalls' = Append(toolCalls, tc)
             /\ BoBody(tc)
    /\ UNCHANGED transcriptVars
    /\ UNCHANGED <<checker, MaxToolCallsBeforeCommit, pc, pendingEdits, violations>>
    /\ UNCHANGED <<registryVars, runVars>>

NextBoCap == BoCapStep \/ BoFinish

SpecBoCap == InitBo /\ [][NextBoCap]_vars

(***************************************************************************)
(* Package transcript: ParseBytes.                                         *)
(*                                                                         *)
(* The input is a sequence of lines, the segments of the data between      *)
(* newlines; a blank line is an empty segment.  A line is malformed (no    *)
(* JSON object, the first Unmarshal fails), or a JSON object with a type   *)
(* whose full decoding succeeds (shape) or fails (for instance             *)
(* "message": 5).  A Go string built by concatenation is a sequence of     *)
(* pieces, "" is <<>>.  An event's UUID is its 1-based line number.        *)
(***************************************************************************)
BlankLine == [kind |-> "blank", type |-> "", shape |-> FALSE, uuid |-> 0]

MalformedLine == [kind |-> "malformed", type |-> "", shape |-> FALSE, uuid |-> 0]

JsonLine(type, shape, body) ==
    [kind |-> "json", type |-> type, shape |-> shape, uuid |-> 0, body |-> body]

\* ContentBlock of an assistant message
TextBlock(s) ==
    [Type |-> "text", Text |-> s, ID |-> "", Name |-> "", Input |-> NoInput]

ToolUseBlock(id, name, input) ==
    [Type |-> "tool_use", Text |-> <<>>, ID |-> id, Name |-> name, Input |-> input]

\* UserContentBlock of a user message; Content is the raw JSON value
UserTextBlock(s) ==
    [Type |-> "text", Text |-> s, ToolUseID |-> "", Content |-> [kind |-> "absent", raw |-> <<>>],
     IsError |-> FALSE]

ToolResultBlock(id, content, isError) ==
    [Type |-> "tool_result", Text |-> <<>>, ToolUseID |-> id, Content |-> content,
     IsError |-> isError]

\* Raw JSON values of a tool result's content field, with their text
JString(s) == [kind |-> "string", str |-> s, raw |-> <<"\"">> \o s \o <<"\"">>]

JArray(items) == [kind |-> "array", items |-> items, raw |-> <<"[", "]">>]

JNull == [kind |-> "null", raw |-> <<"null">>]

JObject == [kind |-> "object", raw |-> <<"{", "}">>]

JAbsent == [kind |-> "absent", raw |-> <<>>]

\* Elements of a JSON array: an object with type and text, or a number
BlockItem(type, text) == [ek |-> "object", Type |-> type, Text |-> text]

NumberItem == [ek |-> "number", Type |-> "", Text |-> <<>>]

\* json.Unmarshal(raw, &str): a JSON string decodes, null leaves str = ""
\* without an error, every other value is an error
UnmarshalString(raw) ==
    CASE raw.kind = "string" -> [ok |-> TRUE, str |-> raw.str]
      [] raw.kind = "null" -> [ok |-> TRUE, str |-> <<>>]
      [] OTHER -> [ok |-> FALSE, str |-> <<>>]

\* json.Unmarshal(raw, &blocks): an array whose elements are all objects
UnmarshalBlocks(raw) ==
    CASE raw.kind = "array" /\ (\A k \in 1..Len(raw.items) : raw.items[k].ek = "object")
            -> [ok |-> TRUE, blocks |-> raw.items]
      [] raw.kind = "null" -> [ok |-> TRUE, blocks |-> <<>>]
      [] OTHER -> [ok |-> FALSE, blocks |-> <<>>]

RECURSIVE JoinAnyBlocks(_, _, _)
JoinAnyBlocks(blocks, k, result) ==
    IF k > Len(blocks) THEN result
    ELSE IF blocks[k].Text # <<>>
         THEN JoinAnyBlocks(blocks, k + 1,
                  (IF result # <<>> THEN result \o <<"\n">> ELSE result) \o blocks[k].Text)
         ELSE JoinAnyBlocks(blocks, k + 1, result)

\* the loop over blocks of extractContentString, from block k on
RECURSIVE JoinTextBlocks(_, _, _)
JoinTextBlocks(blocks, k, result) ==
    IF k > Len(blocks) THEN result
    ELSE IF blocks[k].Type = "text" /\ blocks[k].Text # <<>>
         THEN JoinTextBlocks(blocks, k + 1,
                  (IF result # <<>> THEN result \o <<"\n">> ELSE result) \o blocks[k].Text)
         ELSE JoinTextBlocks(blocks, k + 1, result)

extractContentString(raw) ==
    IF Len(raw.raw) = 0 THEN <<>>
    ELSE IF UnmarshalString(raw).ok THEN UnmarshalString(raw).str
    ELSE IF UnmarshalBlocks(raw).ok THEN JoinTextBlocks(UnmarshalBlocks(raw).blocks, 1, <<>>)
    ELSE raw.raw

\* Decoding a line into the event struct of its type
SystemEventOf(line) ==
    [GoType |-> "SystemEvent", UUID |-> line.uuid, SessionID |-> line.body.session_id,
     Model |-> line.body.model, CWD |-> line.body.cwd, Tools |-> line.body.tools]

AssistantEventOf(line) ==
    [GoType |-> "AssistantEvent", UUID |-> line.uuid,
     Message |-> [Content |-> line.body.content]]

UserEventOf(line) ==
    [GoType |-> "UserEvent", UUID |-> line.uuid,
     Message |-> [Content |-> line.body.content]]

ResultEventOf(line) ==
    [GoType |-> "ResultEvent", UUID |-> line.uuid, TotalCostUSD |-> line.body.total_cost_usd,
     NumTurns |-> line.body.num_turns, IsError |-> line.body.is_error,
     Result |-> line.body.result]

RawEventOf(line) == [GoType |-> "RawMessage", UUID |-> line.uuid, raw |-> line.body]

\* &Transcript{Events: make([]any, 0, len(lines))}
NewTranscript ==
    [SessionID |-> "", Model |-> "", CWD |-> "", Tools |-> <<>>, Events |-> <<>>,
     ToolCalls |-> <<>>, TotalCostUSD |-> 0, NumTurns |-> 0, IsError |-> FALSE,
     Result |-> ""]

ApplySystemFirst(tr, ev) ==
    IF tr.SessionID # "" THEN tr
    ELSE [tr EXCEPT !.SessionID = ev.SessionID, !.Model = ev.Model, !.CWD = ev.CWD,
                    !.Tools = ev.Tools]

ApplySystem(tr, ev) ==
    [tr EXCEPT !.SessionID = ev.SessionID, !.Model = ev.Model, !.CWD = ev.CWD,
               !.Tools = ev.Tools]

ApplyResult(tr, ev) ==
    [tr EXCEPT !.TotalCostUSD = ev.TotalCostUSD, !.NumTurns = ev.NumTurns,
               !.IsError = ev.IsError, !.Result = ev.Result]

AppendEvent(tr, ev) == [tr EXCEPT !.Events = Append(tr.Events, ev)]

StoreResultFirst(results, id, res) ==
    [k \in DOMAIN results \cup {id} |-> IF k \in DOMAIN results THEN results[k] ELSE res]

\* toolResults[id] = res
StoreResult(results, id, res) ==
    [k \in DOMAIN results \cup {id} |-> IF k = id THEN res ELSE results[k]]

\* the loop over a user message's content blocks without the test of
\* content.ToolUseID
RECURSIVE StoreToolResultsAnyID(_, _, _)
StoreToolResultsAnyID(results, content, k) ==
    IF k > Len(content) THEN results
    ELSE IF content[k].Type = "tool_result"
         THEN StoreToolResultsAnyID(
                  StoreResult(results, content[k].ToolUseID,
                      [result |-> extractContentString(content[k].Content),
                       isError |-> content[k].IsError]),
                  content, k + 1)
         ELSE StoreToolResultsAnyID(results, content, k + 1)

\* the loop over a user message's content blocks, from block k on
RECURSIVE StoreToolResults(_, _, _)
StoreToolResults(results, content, k) ==
    IF k > Len(content) THEN results
    ELSE IF content[k].Type = "tool_result" /\ content[k].ToolUseID # ""
         THEN StoreToolResults(
                  StoreResult(results, content[k].ToolUseID,
                      [result |-> extractContentString(content[k].Content),
                       isError |-> content[k].IsError]),
                  content, k + 1)
         ELSE StoreToolResults(results, content, k + 1)

ParseError(i, what) == [line |-> i + 1, msg |-> what]

\* One iteration of the loop of parseLines on lines[i + 1]; st holds t,
\* toolResults and the error returned, if any
ParseLine(st, line, i) ==
    IF line.kind # "json"
    THEN [st EXCEPT !.err = ParseError(i, "parse event type")]
    ELSE CASE line.type = "system" ->
                IF ~line.shape
                THEN [st EXCEPT !.err = ParseError(i, "parse system event")]
                ELSE [st EXCEPT !.t = AppendEvent(ApplySystem(st.t, SystemEventOf(line)),
                                                  SystemEventOf(line))]
           [] line.type = "assistant" ->
                IF ~line.shape
                THEN [st EXCEPT !.err = ParseError(i, "parse assistant event")]
                ELSE [st EXCEPT !.t = AppendEvent(st.t, AssistantEventOf(line))]
           [] line.type = "user" ->
                IF ~line.shape
                THEN [st EXCEPT !.err = ParseError(i, "parse user event")]
                ELSE [st EXCEPT !.toolResults =
                                    StoreToolResults(st.toolResults, line.body.content, 1),
                                !.t = AppendEvent(st.t, UserEventOf(line))]
           [] line.type = "result" ->
                IF ~line.shape
                THEN [st EXCEPT !.err = ParseError(i, "parse result event")]
                ELSE [st EXCEPT !.t = AppendEvent(ApplyResult(st.t, ResultEventOf(line)),
                                                  ResultEventOf(line))]
           [] OTHER -> [st EXCEPT !.t = AppendEvent(st.t, RawEventOf(line))]

\* ToolCall{ID, Name, Input, EventUUID} with the result matched, if any
ToolCallOf(content, uuid, toolResults) ==
    [ID |-> content.ID, Name |-> content.Name, Input |-> content.Input, EventUUID |-> uuid,
     Result |-> IF content.ID \in DOMAIN toolResults
                THEN toolResults[content.ID].result ELSE <<>>,
     IsError |-> IF content.ID \in DOMAIN toolResults
                 THEN toolResults[content.ID].isError ELSE FALSE]

\* the inner loop of ExtractToolCalls over one message's blocks
RECURSIVE ExtractFromContent(_, _, _, _, _)
ExtractFromContent(content, k, uuid, toolResults, calls) ==
    IF k > Len(content) THEN calls
    ELSE IF content[k].Type # "tool_use"
         THEN ExtractFromContent(content, k + 1, uuid, toolResults, calls)
         ELSE ExtractFromContent(content, k + 1, uuid, toolResults,
                  Append(calls, ToolCallOf(content[k], uuid, toolResults)))

RECURSIVE ExtractFirstOnly(_, _, _, _)
ExtractFirstOnly(events, k, toolResults, calls) ==
    IF k > Len(events) THEN calls
    ELSE IF events[k].GoType # "AssistantEvent"
         THEN ExtractFirstOnly(events, k + 1, toolResults, calls)
         ELSE ExtractFirstOnly(events, k + 1, toolResults,
                  LET found == ExtractFromContent(events[k].Message.Content, 1,
                                   events[k].UUID, toolResults, <<>>)
                  IN IF found = <<>> THEN calls ELSE Append(calls, found[1]))

\* the outer loop of ExtractToolCalls over t.Events, from event k on
RECURSIVE ExtractFromEvents(_, _, _, _)
ExtractFromEvents(events, k, toolResults, calls) ==
    IF k > Len(events) THEN calls
    ELSE IF events[k].GoType # "AssistantEvent"
         THEN ExtractFromEvents(events, k + 1, toolResults, calls)
         ELSE ExtractFromEvents(events, k + 1, toolResults,
                  ExtractFromContent(events[k].Message.Content, 1, events[k].UUID,
                                     toolResults, calls))

ExtractToolCalls(tr, toolResults) == ExtractFromEvents(tr.Events, 1, toolResults, <<>>)

\* the loop of parseLines from lines[i + 1] on, and the code after it
RECURSIVE ParseLoop(_, _, _)
ParseLoop(st, lines, i) ==
    IF i >= Len(lines)
    THEN [st EXCEPT !.t.ToolCalls = ExtractToolCalls(st.t, st.toolResults)]
    ELSE LET next == ParseLine(st, lines[i + 1], i)
         IN IF next.err # Nil
            THEN [next EXCEPT !.t = Nil]
            ELSE ParseLoop(next, lines, i + 1)

parseLines(lines) ==
    IF Len(lines) = 0
    THEN [t |-> Nil, toolResults |-> <<>>, err |-> [msg |-> "empty transcript"]]
    ELSE ParseLoop([t |-> NewTranscript, toolResults |-> <<>>, err |-> Nil], lines, 0)

\* ParseBytes keeps the non-empty segments between newlines
SplitLines(bytes) == SelectSeq(bytes, LAMBDA l : l.kind # "blank")

\* Lines of the transcripts parsed
SysA == JsonLine("system", TRUE,
            [session_id |-> "s1", model |-> "m1", cwd |-> "/a", tools |-> <<"Bash">>])

SysB == JsonLine("system", TRUE,
            [session_id |-> "s2", model |-> "m2", cwd |-> "/b", tools |-> <<>>])

ResA == JsonLine("result", TRUE,
            [total_cost_usd |-> 1, num_turns |-> 2, is_error |-> FALSE, result |-> "done"])

ResB == JsonLine("result", TRUE,
            [total_cost_usd |-> 3, num_turns |-> 5, is_error |-> TRUE, result |-> "failed"])

BadShape == JsonLine("assistant", FALSE, [content |-> <<>>])

Unknown == JsonLine("progress", TRUE,
               [content |-> <<ToolUseBlock("x", "Bash", NoInput)>>])

AsstX == JsonLine("assistant", TRUE,
             [content |-> <<TextBlock(<<"ok">>), ToolUseBlock("x", "Bash", NoInput)>>])

\* the first tool_use block has no id
AsstNoIDX == JsonLine("assistant", TRUE,
                 [content |-> <<ToolUseBlock("", "Read", NoInput),
                                ToolUseBlock("x", "Edit", NoInput)>>])

UserX == JsonLine("user", TRUE,
             [content |-> <<ToolResultBlock("x", JString(<<"out">>), FALSE)>>])

\* the first tool_result block has no tool_use_id
UserNoIDXErr == JsonLine("user", TRUE,
                    [content |-> <<ToolResultBlock("", JString(<<"lost">>), FALSE),
                                   ToolResultBlock("x", JString(<<"failed">>), TRUE)>>])

ParseInputs ==
    {BlankLine, MalformedLine, BadShape, SysA, SysB, ResA, ResB, Unknown,
     AsstX, AsstNoIDX, UserX, UserNoIDXErr}

ParseBytesID == "ParseBytes"

\* the caller hands over one more line of input
ReadLine ==
    /\ checker = ParseBytesID
    /\ pc = "input"
    /\ Len(data) < MaxLines
    /\ \E inp \in ParseInputs :
          data' = Append(data, [inp EXCEPT !.uuid = Len(data) + 1])
    /\ UNCHANGED <<t, err>>
    /\ UNCHANGED checkerVars
    /\ UNCHANGED <<registryVars, runVars>>

ParseBytes ==
    /\ checker = ParseBytesID
    /\ pc = "input"
    /\ LET res == parseLines(SplitLines(data))
       IN /\ t' = res.t
          /\ err' = res.err
    /\ pc' = "done"
    /\ UNCHANGED <<checker, MaxToolCallsBeforeCommit, toolCalls, pendingEdits, violations,
                   sleeps, lastCommand, lastCommandWasPolling, data>>
    /\ UNCHANGED <<registryVars, runVars>>

InitParse ==
    /\ checker = ParseBytesID
    /\ MaxToolCallsBeforeCommit = 0
    /\ toolCalls = <<>>
    /\ pc = "input"
    /\ pendingEdits = <<>>
    /\ violations = <<>>
    /\ sleeps = <<>>
    /\ lastCommand = <<>>
    /\ lastCommandWasPolling = FALSE
    /\ data = <<>>
    /\ t = Nil
    /\ err = Nil
    /\ RegistryUntouched
    /\ NoRuns

NextParse == ReadLine \/ ParseBytes

SpecParse == InitParse /\ [][NextParse]_vars

\* Transcripts whose tool results have content of every shape
AsstY == JsonLine("assistant", TRUE, [content |-> <<ToolUseBlock("y", "Read", NoInput)>>])

ContentItems ==
    {BlockItem("text", <<"a">>), BlockItem("text", <<"b">>), BlockItem("image", <<"d">>)}

BlockArrays == UNION {[1..n -> ContentItems] : n \in 0..MaxBlocks}

Contents ==
    {JString(<<"out">>), JString(<<>>), JNull, JObject, JAbsent,
     JArray(<<BlockItem("text", <<"a">>), NumberItem>>),
     JArray(<<BlockItem("text", <<>>), BlockItem("text", <<"a">>)>>)}
    \cup {JArray(a) : a \in BlockArrays}

ContentInputs ==
    {AsstX, AsstY}
    \cup {JsonLine("user", TRUE, [content |-> <<ToolResultBlock("x", c, FALSE)>>]) :
             c \in Contents}

ReadContentLine ==
    /\ checker = ParseBytesID
    /\ pc = "input"
    /\ Len(data) < MaxContentLines
    /\ \E inp \in ContentInputs :
          data' = Append(data, [inp EXCEPT !.uuid = Len(data) + 1])
    /\ UNCHANGED <<t, err>>
    /\ UNCHANGED checkerVars
    /\ UNCHANGED <<registryVars, runVars>>

NextContent == ReadContentLine \/ ParseBytes

SpecContent == InitParse /\ [][NextContent]_vars

(***************************************************************************)
(* Checkers that read t.Events: clarifying-questions and user-approval.    *)
(*                                                                         *)
(* The transcript is built event by event (AddEvent), t.ToolCalls being    *)
(* what ExtractToolCalls gives for the events, and then checked by one     *)
(* Check action.  An event's UUID is its 1-based position in t.Events.     *)
(* A text is a sequence of lower-case words (the patterns are all (?i)),   *)
(* a question mark being a word of its own that follows its word without   *)
(* a space; a pattern is matched on whole words.  A message carries at     *)
(* most one text block, so that the concatenation of the text blocks of a  *)
(* message joins no two words.                                             *)
(***************************************************************************)
AssistantEvent(uuid, content) ==
    [GoType |-> "AssistantEvent", UUID |-> uuid, Message |-> [Content |-> content]]

UserEvent(uuid, content) ==
    [GoType |-> "UserEvent", UUID |-> uuid, Message |-> [Content |-> content]]

\* the text.WriteString loop over the content blocks, from block k on
RECURSIVE TextOf(_, _)
TextOf(content, k) ==
    IF k > Len(content) THEN <<>>
    ELSE IF content[k].Type = "text"
         THEN content[k].Text \o TextOf(content, k + 1)
         ELSE TextOf(content, k + 1)

MatchAt(text, k, phrase) ==
    /\ k + Len(phrase) - 1 <= Len(text)
    /\ \A j \in 1..Len(phrase) : text[k + j - 1] = phrase[j]

HasPhrase(text, phrase) == \E k \in 1..Len(text) : MatchAt(text, k, phrase)

\* word\s+ : the word, followed by another word
HasWordThenMore(text, word) == \E k \in 1..(Len(text) - 1) : text[k] = word

\* verb\s+(a\s+)?(new\s+)?\w+\s*(kinds)
HasBuildPhrase(text, verb, kinds) ==
    \E k \in 1..Len(text) :
        /\ text[k] = verb
        /\ \E n \in 1..3 :
              /\ k + n + 1 <= Len(text)
              /\ text[k + n + 1] \in kinds
              /\ n = 2 => text[k + 1] \in {"a", "new"}
              /\ n = 3 => (text[k + 1] = "a" /\ text[k + 2] = "new")

\* first\s+(seconds)\s+.*\?
HasQuestionPhrase(text, first, seconds) ==
    \E k \in 1..Len(text) :
        /\ text[k] = first
        /\ k + 1 <= Len(text)
        /\ text[k + 1] \in seconds
        /\ \E j \in (k + 3)..Len(text) : text[j] = "?"

complexTaskPatterns(text) ==
    \/ HasPhrase(text, <<"add", "authentication">>)
    \/ HasPhrase(text, <<"add", "user", "authentication">>)
    \/ \E k \in 1..Len(text) :
          /\ text[k] = "implement"
          /\ \E j \in (k + 1)..Len(text) : text[j] \in {"feature", "system", "module"}
    \/ HasWordThenMore(text, "refactor")
    \/ HasWordThenMore(text, "optimize")
    \/ HasPhrase(text, <<"improve", "performance">>)
    \/ HasPhrase(text, <<"improve", "the", "performance">>)
    \/ \E w \in {"feature", "endpoint", "api"} :
          \/ HasPhrase(text, <<"add", "new", w>>)
          \/ HasPhrase(text, <<"add", "a", "new", w>>)
    \/ HasBuildPhrase(text, "build", {"feature", "system", "module"})
    \/ HasBuildPhrase(text, "create", {"feature", "system", "module", "service"})
    \/ HasWordThenMore(text, "integrate")
    \/ HasWordThenMore(text, "migrate")
    \/ HasWordThenMore(text, "redesign")
    \/ \E k \in 1..Len(text) :
          /\ text[k] = "add"
          /\ \E j \in (k + 2)..Len(text) :
                /\ j + 2 <= Len(text)
                /\ text[j] = "to"
                /\ text[j + 1] \in {"this", "the"}
                /\ text[j + 2] \in {"app", "application", "project"}

questionPatterns(text) ==
    \/ \E w \in {"start", "begin", "implement", "proceed"} :
          HasPhrase(text, <<"before", "i", w>>)
    \/ HasPhrase(text, <<"i", "have", "a", "few", "questions">>)
    \/ HasPhrase(text, <<"i", "have", "some", "questions">>)
    \/ \E w \in {"approach", "method", "option", "library"} : HasPhrase(text, <<"which", w>>)
    \/ HasQuestionPhrase(text, "should", {"i", "we", "it"})
    \/ \E w \in {"like", "prefer"} : HasPhrase(text, <<"would", "you", w>>)
    \/ \E w \in {"want", "prefer", "need"} : HasPhrase(text, <<"do", "you", w>>)
    \/ HasQuestionPhrase(text, "what", {"should", "would"})
    \/ HasPhrase(text, <<"could", "you", "clarify">>)
    \/ HasPhrase(text, <<"a", "few", "questions">>)
    \/ HasPhrase(text, <<"a", "few", "clarifying", "questions">>)
    \/ \E k \in 1..Len(text) :
          /\ k + 1 <= Len(text)
          /\ text[k] = "option"
          /\ text[k + 1] \in {"a", "1", "one"}
          /\ \E j \in (k + 2)..(Len(text) - 1) :
                text[j] = "option" /\ text[j + 1] \in {"b", "2", "two"}

implementationVerbs == {"start", "begin", "create", "implement", "write"}

implementationPatterns(text) ==
    \/ \E w \in implementationVerbs :
          \/ HasPhrase(text, <<"let", "me", w>>)
          \/ HasPhrase(text, <<"i'll", w>>)
          \/ HasPhrase(text, <<"i'm", "going", "to", w>>)
          \/ HasPhrase(text, <<"i", "will", w>>)
          \/ HasPhrase(text, <<"i", "will", "now", w>>)
          \/ HasPhrase(text, <<"now", "i'll", w>>)
          \/ HasPhrase(text, <<"now", "i'm", "going", "to", w>>)
    \/ \E k \in 1..(Len(text) - 2) : text[k] = "creating" /\ text[k + 1] \in {"the", "a"}
    \/ HasWordThenMore(text, "implementing")
    \/ \E w \in {"created", "implemented", "added", "written"} : HasPhrase(text, <<"i've", w>>)
    \/ Len(text) >= 3 /\ text[1] = "starting" /\ text[2] \in {"the", "to"}

implementationTools == {"Write", "Edit", "NotebookEdit"}

ClarifyingQuestionsID == "clarifying-questions"

\* lengths are counted in words
truncate(s, maxLen) ==
    IF Len(s) <= maxLen THEN s ELSE SubSeq(s, 1, maxLen - 3) \o <<"...">>

\* First pass: the user messages with a complex task, from event i on
RECURSIVE complexTasks(_, _)
complexTasks(events, i) ==
    IF i >= Len(events) THEN <<>>
    ELSE IF /\ events[i + 1].GoType = "UserEvent"
            /\ complexTaskPatterns(TextOf(events[i + 1].Message.Content, 1))
         THEN <<[eventIdx |-> i, uuid |-> events[i + 1].UUID,
                 text |-> TextOf(events[i + 1].Message.Content, 1)]>>
              \o complexTasks(events, i + 1)
         ELSE complexTasks(events, i + 1)

\* Second pass: the assistant messages, classified, from event i on
RECURSIVE assistantMsgs(_, _)
assistantMsgs(events, i) ==
    IF i >= Len(events) THEN <<>>
    ELSE IF events[i + 1].GoType = "AssistantEvent"
         THEN LET content == events[i + 1].Message.Content
                  msgText == TextOf(content, 1)
              IN <<[eventIdx |-> i, uuid |-> events[i + 1].UUID, text |-> msgText,
                    usesAskQuestion |->
                        \E k \in 1..Len(content) :
                            content[k].Type = "tool_use" /\ content[k].Name = "AskUserQuestion",
                    asksQuestions |-> questionPatterns(msgText),
                    startsImplement |-> implementationPatterns(msgText),
                    usesImplementTool |->
                        \E k \in 1..Len(content) :
                            content[k].Type = "tool_use"
                            /\ content[k].Name \in implementationTools]>>
                 \o assistantMsgs(events, i + 1)
         ELSE assistantMsgs(events, i + 1)

RECURSIVE ScanTaskFromStart(_, _, _, _)
ScanTaskFromStart(task, msgs, k, questionAsked) ==
    IF k > Len(msgs)
    THEN [implementationStarted |-> FALSE, questionAsked |-> questionAsked,
          violatingMsgUUID |-> 0]
    ELSE LET msg == msgs[k]
             asked == questionAsked \/ msg.usesAskQuestion \/ msg.asksQuestions
         IN IF (msg.startsImplement \/ msg.usesImplementTool) /\ ~asked
                    /\ msg.eventIdx > task.eventIdx
            THEN [implementationStarted |-> TRUE, questionAsked |-> asked,
                  violatingMsgUUID |-> msg.uuid]
            ELSE IF asked /\ msg.eventIdx > task.eventIdx
            THEN [implementationStarted |-> FALSE, questionAsked |-> asked,
                  violatingMsgUUID |-> 0]
            ELSE ScanTaskFromStart(task, msgs, k + 1, asked)

RECURSIVE ScanTaskImplementFirst(_, _, _, _)
ScanTaskImplementFirst(task, msgs, k, questionAsked) ==
    IF k > Len(msgs)
    THEN [implementationStarted |-> FALSE, questionAsked |-> questionAsked,
          violatingMsgUUID |-> 0]
    ELSE LET msg == msgs[k]
         IN IF msg.eventIdx <= task.eventIdx
            THEN ScanTaskImplementFirst(task, msgs, k + 1, questionAsked)
            ELSE IF (msg.startsImplement \/ msg.usesImplementTool) /\ ~questionAsked
            THEN [implementationStarted |-> TRUE, questionAsked |-> questionAsked,
                  violatingMsgUUID |-> msg.uuid]
            ELSE IF questionAsked \/ msg.usesAskQuestion \/ msg.asksQuestions
            THEN [implementationStarted |-> FALSE, questionAsked |-> TRUE,
                  violatingMsgUUID |-> 0]
            ELSE ScanTaskImplementFirst(task, msgs, k + 1, questionAsked)

\* the inner loop over assistantMsgs for one task, from message k on
RECURSIVE ScanTask(_, _, _, _)
ScanTask(task, msgs, k, questionAsked) ==
    IF k > Len(msgs)
    THEN [implementationStarted |-> FALSE, questionAsked |-> questionAsked,
          violatingMsgUUID |-> 0]
    ELSE LET msg == msgs[k]
             asked == questionAsked \/ msg.usesAskQuestion \/ msg.asksQuestions
         IN IF msg.eventIdx <= task.eventIdx
            THEN ScanTask(task, msgs, k + 1, questionAsked)
            ELSE IF (msg.startsImplement \/ msg.usesImplementTool) /\ ~asked
            THEN [implementationStarted |-> TRUE, questionAsked |-> asked,
                  violatingMsgUUID |-> msg.uuid]
            ELSE IF asked
            THEN [implementationStarted |-> FALSE, questionAsked |-> asked,
                  violatingMsgUUID |-> 0]
            ELSE ScanTask(task, msgs, k + 1, asked)

ClarifyingViolation(task, uuid) ==
    [CheckerID |-> ClarifyingQuestionsID,
     Rule |-> "Rule 13",
     Severity |-> SeverityWarning,
     Message |-> "Started implementing complex task without asking clarifying questions",
     EventUUID |-> uuid,
     ToolCallID |-> "",
     Context |-> [task |-> truncate(task.text, 100)]]

\* the loop over complexTasks, from task n on
RECURSIVE CheckTasks(_, _, _)
CheckTasks(tasks, msgs, n) ==
    IF n > Len(tasks) THEN <<>>
    ELSE LET res == ScanTask(tasks[n], msgs, 1, FALSE)
         IN (IF res.implementationStarted /\ ~res.questionAsked
             THEN <<ClarifyingViolation(tasks[n], res.violatingMsgUUID)>>
             ELSE <<>>)
            \o CheckTasks(tasks, msgs, n + 1)

ClarifyingQuestionsCheck(tr) ==
    IF Len(complexTasks(tr.Events, 0)) = 0 THEN <<>>
    ELSE CheckTasks(complexTasks(tr.Events, 0), assistantMsgs(tr.Events, 0), 1)

\* Messages of the transcripts checked
CqInputs ==
    { [GoType |-> "UserEvent",
       Content |-> <<UserTextBlock(<<"add", "user", "authentication", "to", "this", "app">>)>>],
      [GoType |-> "UserEvent",
       Content |-> <<UserTextBlock(<<"fix", "the", "typo">>)>>],
      [GoType |-> "AssistantEvent",
       Content |-> <<TextBlock(<<"let", "me", "start", "implementing", "the",
                                 "authentication", "system">>)>>],
      [GoType |-> "AssistantEvent",
       Content |-> <<TextBlock(<<"should", "i", "use", "jwt", "or", "session", "cookies", "?">>)>>],
      [GoType |-> "AssistantEvent",
       Content |-> <<TextBlock(<<"should", "i", "use", "jwt", "or", "session", "cookies", "?",
                                 "let", "me", "start", "implementing", "with", "jwt">>)>>],
      [GoType |-> "AssistantEvent",
       Content |-> <<ToolUseBlock("w1", "Write", NoInput)>>],
      [GoType |-> "AssistantEvent",
       Content |-> <<ToolUseBlock("q1", "AskUserQuestion", NoInput)>>],
      [GoType |-> "AssistantEvent",
       Content |-> <<TextBlock(<<"looking", "at", "the", "code">>),
                     ToolUseBlock("r1", "Read", NoInput)>>] }

\* the event with the next UUID
EventOf(inp, uuid) ==
    IF inp.GoType = "AssistantEvent"
    THEN AssistantEvent(uuid, inp.Content)
    ELSE UserEvent(uuid, inp.Content)

\* a transcript with one more event, and the tool calls of its events
WithEvent(tr, ev) ==
    [tr EXCEPT !.Events = Append(tr.Events, ev),
               !.ToolCalls = ExtractToolCalls(AppendEvent(tr, ev), <<>>)]

CqAddEvent ==
    /\ checker = ClarifyingQuestionsID
    /\ pc = "build"
    /\ Len(t.Events) < MaxCqEvents
    /\ \E inp \in CqInputs : t' = WithEvent(t, EventOf(inp, Len(t.Events) + 1))
    /\ UNCHANGED <<data, err>>
    /\ UNCHANGED checkerVars
    /\ UNCHANGED <<registryVars, runVars>>

CqCheck ==
    /\ checker = ClarifyingQuestionsID
    /\ pc = "build"
    /\ violations' = ClarifyingQuestionsCheck(t)
    /\ pc' = "done"
    /\ UNCHANGED <<checker, MaxToolCallsBeforeCommit, toolCalls, pendingEdits, sleeps,
                   lastCommand, lastCommandWasPolling>>
    /\ UNCHANGED transcriptVars
    /\ UNCHANGED <<registryVars, runVars>>

InitCq ==
    /\ checker = ClarifyingQuestionsID
    /\ MaxToolCallsBeforeCommit = 0
    /\ toolCalls = <<>>
    /\ pc = "build"
    /\ pendingEdits = <<>>
    /\ violations = <<>>
    /\ sleeps = <<>>
    /\ lastCommand = <<>>
    /\ lastCommandWasPolling = FALSE
    /\ data = <<>>
    /\ t = NewTranscript
    /\ err = Nil
    /\ RegistryUntouched
    /\ NoRuns

NextCq == CqAddEvent \/ CqCheck

SpecCq == InitCq /\ [][NextCq]_vars

(***************************************************************************)
(* user-approval                                                           *)
(***************************************************************************)
UserApprovalID == "user-approval"

\* bd\s+update\s+\S+\s+--status\s+in_progress
bdInProgressPattern(command) ==
    \E k \in 1..Len(command) :
        /\ k + 4 <= Len(command)
        /\ command[k] = "bd"
        /\ command[k + 1] = "update"
        /\ command[k + 3] = "--status"
        /\ command[k + 4] = "in_progress"

approvalPatterns(text) ==
    \/ HasPhrase(text, <<"proceed", "?">>)
    \/ HasPhrase(text, <<"[yes/no]">>)
    \/ HasPhrase(text, <<"ready", "to", "work", "on">>)
    \/ \E w \in {"start", "begin", "proceed"} : HasPhrase(text, <<"shall", "i", w>>)
    \/ HasPhrase(text, <<"would", "you", "like", "me", "to">>)
    \/ \E w \in {"start", "begin", "proceed"} : HasPhrase(text, <<"should", "i", w>>)

\* the assistant messages that have text, from event i on
RECURSIVE approvalMsgs(_, _)
approvalMsgs(events, i) ==
    IF i >= Len(events) THEN <<>>
    ELSE IF /\ events[i + 1].GoType = "AssistantEvent"
            /\ Len(TextOf(events[i + 1].Message.Content, 1)) > 0
         THEN <<[eventIdx |-> i, uuid |-> events[i + 1].UUID,
                 text |-> TextOf(events[i + 1].Message.Content, 1)]>>
              \o approvalMsgs(events, i + 1)
         ELSE approvalMsgs(events, i + 1)

HasToolUse(ev, id) ==
    /\ ev.GoType = "AssistantEvent"
    /\ \E k \in 1..Len(ev.Message.Content) :
          ev.Message.Content[k].Type = "tool_use" /\ ev.Message.Content[k].ID = id

\* index of the first assistant event with a tool_use block of this id, or -1
toolEventIdx(events, id) ==
    IF \E i \in 0..(Len(events) - 1) : HasToolUse(events[i + 1], id)
    THEN CHOOSE i \in 0..(Len(events) - 1) :
            /\ HasToolUse(events[i + 1], id)
            /\ \A j \in 0..(i - 1) : ~HasToolUse(events[j + 1], id)
    ELSE -1

approvalFound(msgs, idx) ==
    \E k \in 1..Len(msgs) : msgs[k].eventIdx < idx /\ approvalPatterns(msgs[k].text)

ApprovalViolation(tc) ==
    [CheckerID |-> UserApprovalID,
     Rule |-> "Rule 4",
     Severity |-> SeverityWarning,
     Message |-> "Started work on bead issue without requesting user approval",
     EventUUID |-> tc.EventUUID,
     ToolCallID |-> tc.ID,
     Context |-> [command |-> truncate(tc.Input.command, 100)]]

\* the loop over t.ToolCalls, from call n on
RECURSIVE CheckCalls(_, _, _)
CheckCalls(tr, msgs, n) ==
    IF n > Len(tr.ToolCalls) THEN <<>>
    ELSE LET tc == tr.ToolCalls[n]
         IN IF tc.Name # "Bash" \/ ~tc.Input.ok \/ ~bdInProgressPattern(tc.Input.command)
            THEN CheckCalls(tr, msgs, n + 1)
            ELSE (IF approvalFound(msgs, toolEventIdx(tr.Events, tc.ID))
                  THEN <<>>
                  ELSE <<ApprovalViolation(tc)>>)
                 \o CheckCalls(tr, msgs, n + 1)

UserApprovalCheck(tr) == CheckCalls(tr, approvalMsgs(tr.Events, 0), 1)

BdUpdate == Cmd(<<"bd", "update", "AGENTS-1", "--status", "in_progress">>)

UaInputs ==
    { [GoType |-> "AssistantEvent",
       Content |-> <<ToolUseBlock("b1", "Bash", BdUpdate)>>],
      [GoType |-> "AssistantEvent",
       Content |-> <<TextBlock(<<"ready", "to", "work", "on", "it">>),
                     ToolUseBlock("b2", "Bash", BdUpdate)>>],
      [GoType |-> "AssistantEvent",
       Content |-> <<TextBlock(<<"shall", "i", "start", "?">>)>>],
      [GoType |-> "AssistantEvent",
       Content |-> <<TextBlock(<<"checking", "the", "issues">>),
                     ToolUseBlock("b3", "Bash", Cmd(<<"bd", "ready">>))>>],
      [GoType |-> "AssistantEvent",
       Content |-> <<ToolUseBlock("b4", "Bash", BadInput)>>],
      [GoType |-> "UserEvent",
       Content |-> <<UserTextBlock(<<"yes", "proceed", "?">>)>>] }

UaAddEvent ==
    /\ checker = UserApprovalID
    /\ pc = "build"
    /\ Len(t.Events) < MaxUaEvents
    /\ \E inp \in UaInputs : t' = WithEvent(t, EventOf(inp, Len(t.Events) + 1))
    /\ UNCHANGED <<data, err>>
    /\ UNCHANGED checkerVars
    /\ UNCHANGED <<registryVars, runVars>>

UaCheck ==
    /\ checker = UserApprovalID
    /\ pc = "build"
    /\ violations' = UserApprovalCheck(t)
    /\ pc' = "done"
    /\ UNCHANGED <<checker, MaxToolCallsBeforeCommit, toolCalls, pendingEdits, sleeps,
                   lastCommand, lastCommandWasPolling>>
    /\ UNCHANGED transcriptVars
    /\ UNCHANGED <<registryVars, runVars>>

InitUa ==
    /\ checker = UserApprovalID
    /\ MaxToolCallsBeforeCommit = 0
    /\ toolCalls = <<>>
    /\ pc = "build"
    /\ pendingEdits = <<>>
    /\ violations = <<>>
    /\ sleeps = <<>>
    /\ lastCommand = <<>>
    /\ lastCommandWasPolling = FALSE
    /\ data = <<>>
    /\ t = NewTranscript
    /\ err = Nil
    /\ RegistryUntouched
    /\ NoRuns

NextUa == UaAddEvent \/ UaCheck

SpecUa == InitUa /\ [][NextUa]_vars

(***************************************************************************)
(* context-report.                                                         *)
(*                                                                         *)
(* The transcript is built event by event and then checked by one Check    *)
(* action.  contextPattern is case-sensitive, so the words of a text keep  *)
(* their case here; the pattern is matched on whole words, the report      *)
(* being the three words Context: NN% used.                                *)
(***************************************************************************)
ContextReportID == "context-report"

Percents == {"15%", "25%"}

\* regexp `Context:\s*\d+%\s*used`, matched anywhere in the text
contextPattern(text) ==
    \E k \in 1..(Len(text) - 2) :
        /\ text[k] = "Context:"
        /\ text[k + 1] \in Percents
        /\ text[k + 2] = "used"

\* the loop over assitantEv.Message.Content, from block k on
RECURSIVE LastTextOfContent(_, _, _, _)
LastTextOfContent(last, content, k, uuid) ==
    IF k > Len(content) THEN last
    ELSE IF content[k].Type = "text" /\ content[k].Text # <<>>
         THEN LastTextOfContent([text |-> content[k].Text, uuid |-> uuid],
                                content, k + 1, uuid)
         ELSE LastTextOfContent(last, content, k + 1, uuid)

\* the loop over t.Events, from event k on: lastTextContent, lastEventUUID
RECURSIVE LastText(_, _, _)
LastText(last, events, k) ==
    IF k > Len(events) THEN last
    ELSE IF events[k].GoType # "AssistantEvent"
         THEN LastText(last, events, k + 1)
         ELSE LastText(LastTextOfContent(last, events[k].Message.Content, 1,
                                         events[k].UUID),
                       events, k + 1)

ContextViolation(uuid) ==
    [CheckerID |-> ContextReportID,
     Rule |-> "Rule 5",
     Severity |-> SeverityWarning,
     Message |-> "Final response missing context usage report (Context: XX% used)",
     EventUUID |-> uuid]

ContextReportCheck(tr) ==
    LET last == LastText([text |-> <<>>, uuid |-> ""], tr.Events, 1)
    IN IF last.text # <<>> /\ ~contextPattern(last.text)
       THEN <<ContextViolation(last.uuid)>>
       ELSE <<>>

\* Messages of the transcripts checked
CrInputs ==
    { [GoType |-> "AssistantEvent",
       Content |-> <<TextBlock(<<"I", "completed", "the", "task!">>)>>],
      [GoType |-> "AssistantEvent",
       Content |-> <<TextBlock(<<"Done!", "---", "Context:", "15%", "used">>)>>],
      [GoType |-> "AssistantEvent",
       Content |-> <<TextBlock(<<"context:", "15%", "used">>)>>],
      [GoType |-> "AssistantEvent",
       Content |-> <<ToolUseBlock("r1", "Read", NoInput)>>],
      [GoType |-> "AssistantEvent",
       Content |-> <<TextBlock(<<>>), ToolUseBlock("r2", "Read", NoInput)>>],
      [GoType |-> "AssistantEvent",
       Content |-> <<TextBlock(<<"Context:", "25%", "used">>),
                     TextBlock(<<"Bye">>)>>],
      [GoType |-> "AssistantEvent",
       Content |-> <<TextBlock(<<"Starting", "work...">>),
                     TextBlock(<<"Context:", "25%", "used">>)>>],
      [GoType |-> "UserEvent",
       Content |-> <<UserTextBlock(<<"thanks">>)>>] }

CrAddEvent ==
    /\ checker = ContextReportID
    /\ pc = "build"
    /\ Len(t.Events) < MaxCrEvents
    /\ \E inp \in CrInputs : t' = WithEvent(t, EventOf(inp, Len(t.Events) + 1))
    /\ UNCHANGED <<data, err>>
    /\ UNCHANGED checkerVars
    /\ UNCHANGED <<registryVars, runVars>>

CrCheck ==
    /\ checker = ContextReportID
    /\ pc = "build"
    /\ violations' = ContextReportCheck(t)
    /\ pc' = "done"
    /\ UNCHANGED <<checker, MaxToolCallsBeforeCommit, toolCalls, pendingEdits, sleeps,
                   lastCommand, lastCommandWasPolling>>
    /\ UNCHANGED transcriptVars
    /\ UNCHANGED <<registryVars, runVars>>

InitCr ==
    /\ checker = ContextReportID
    /\ MaxToolCallsBeforeCommit = 0
    /\ toolCalls = <<>>
    /\ pc = "build"
    /\ pendingEdits = <<>>
    /\ violations = <<>>
    /\ sleeps = <<>>
    /\ lastCommand = <<>>
    /\ lastCommandWasPolling = FALSE
    /\ data = <<>>
    /\ t = NewTranscript
    /\ err = Nil
    /\ RegistryUntouched
    /\ NoRuns

NextCr == CrAddEvent \/ CrCheck

SpecCr == InitCr /\ [][NextCr]_vars

(***************************************************************************)
(* parallel-worktree.                                                      *)
(*                                                                         *)
(* The scan over t.ToolCalls is modelled one loop iteration per action, as *)
(* for commit-after-edit.  The input of a Task call is a JSON object with  *)
(* a subagent_type (the empty string when the field is missing), or a raw  *)
(* input json.Unmarshal rejects.                                           *)
(***************************************************************************)
ParallelWorktreeID == "parallel-worktree"

TaskInput(agentType) == [ok |-> TRUE, command |-> <<>>, subagent_type |-> agentType]

exemptAgentTypes == {"Explore", "Plan", "claude-code-guide", "statusline-setup"}

NoExemptAgent(agentType) == FALSE

isExemptAgent(agentType) == agentType \in exemptAgentTypes

\* strings.Contains(input.Command, "git worktree add")
IsWorktreeAdd(command) == HasPhrase(command, <<"git", "worktree", "add">>)

\* The Message is the source's up to its semicolon.
WorktreeViolation(tc) ==
    [CheckerID |-> ParallelWorktreeID,
     Rule |-> "Rule 8",
     Severity |-> SeverityWarning,
     Message |-> "Parallel agent spawned without git worktree",
     EventUUID |-> tc.EventUUID,
     ToolCallID |-> tc.ID]

worktreeCreatedKept == worktreeCreated

\* worktreeCreated := false
worktreeCreatedAtEntry == FALSE

\* Task branch of ParallelWorktree.Check without the continue on a decode
\* failure
PwBodyNoDecodeCheck(tc) ==
    IF tc.Name = "Bash"
    THEN /\ worktreeCreated' = IF tc.Input.ok /\ IsWorktreeAdd(tc.Input.command)
                               THEN TRUE ELSE worktreeCreated
         /\ UNCHANGED violations
    ELSE IF tc.Name = "Task"
    THEN /\ violations' = IF ~worktreeCreated
                          THEN Append(violations, WorktreeViolation(tc))
                          ELSE violations
         /\ UNCHANGED worktreeCreated
    ELSE UNCHANGED <<worktreeCreated, violations>>

\* One iteration of the loop of ParallelWorktree.Check on tool call tc.
PwBody(tc) ==
    IF tc.Name = "Bash"
    THEN /\ worktreeCreated' = IF tc.Input.ok /\ IsWorktreeAdd(tc.Input.command)
                               THEN TRUE ELSE worktreeCreated
         /\ UNCHANGED violations
    ELSE IF tc.Name = "Task"
    THEN /\ violations' = IF /\ tc.Input.ok
                             /\ ~isExemptAgent(tc.Input.subagent_type)
                             /\ ~worktreeCreated
                          THEN Append(violations, WorktreeViolation(tc))
                          ELSE violations
         /\ UNCHANGED worktreeCreated
    ELSE UNCHANGED <<worktreeCreated, violations>>

PwInputs ==
    { [Name |-> "Task", ID |-> "p1", Input |-> TaskInput("general-purpose")],
      [Name |-> "Task", ID |-> "p2", Input |-> TaskInput("Explore")],
      [Name |-> "Task", ID |-> "p3", Input |-> TaskInput("")],
      [Name |-> "Task", ID |-> "p4", Input |-> BadInput],
      [Name |-> "Bash", ID |-> "p5",
       Input |-> Cmd(<<"git", "worktree", "add", "../work">>)],
      [Name |-> "Bash", ID |-> "p6", Input |-> Cmd(<<"git", "worktree", "list">>)],
      [Name |-> "Bash", ID |-> "p7", Input |-> BadInput],
      [Name |-> "Read", ID |-> "p8", Input |-> NoInput] }

PwStep ==
    /\ checker = ParallelWorktreeID
    /\ pc = "scan"
    /\ Len(toolCalls) < MaxPwCalls
    /\ \E inp \in PwInputs :
          LET tc == ToolCall(inp, Len(toolCalls))
          IN /\ toolCalls' = Append(toolCalls, tc)
             /\ PwBody(tc)
    /\ UNCHANGED <<checker, MaxToolCallsBeforeCommit, pc, pendingEdits, sleeps,
                   lastCommand, lastCommandWasPolling, runs,
                   executed>>
    /\ UNCHANGED <<transcriptVars, registryVars>>

\* return violations
PwFinish ==
    /\ checker = ParallelWorktreeID
    /\ pc = "scan"
    /\ pc' = "done"
    /\ UNCHANGED <<checker, MaxToolCallsBeforeCommit, toolCalls, pendingEdits, violations,
                   sleeps, lastCommand, lastCommandWasPolling>>
    /\ UNCHANGED <<transcriptVars, registryVars, runVars>>

InitPw ==
    /\ checker = ParallelWorktreeID
    /\ MaxToolCallsBeforeCommit = 0
    /\ toolCalls = <<>>
    /\ pc = "scan"
    /\ pendingEdits = <<>>
    /\ violations = <<>>
    /\ sleeps = <<>>
    /\ lastCommand = <<>>
    /\ lastCommandWasPolling = FALSE
    /\ data = <<>>
    /\ t = Nil
    /\ err = Nil
    /\ RegistryUntouched
    /\ NoRuns

NextPw == PwStep \/ PwFinish

SpecPw == InitPw /\ [][NextPw]_vars

(***************************************************************************)
(* Check calls one after the other, as the loop of Run makes them: each    *)
(* call is given a checker and a transcript, runs from the entry of Check  *)
(* to its return, and its result is recorded in runs.  What a call leaves  *)
(* in the variables is what the next call finds; the entry of Check        *)
(* initialises the locals of that Check.                                   *)
(***************************************************************************)
TranscriptOf(inputs) ==
    [NewTranscript EXCEPT
        !.ToolCalls = [k \in 1..Len(inputs) |-> ToolCall(inputs[k], k - 1)]]

RunTaskCall == [Name |-> "Task", ID |-> "p1", Input |-> TaskInput("general-purpose")]

RunWorktreeCall ==
    [Name |-> "Bash", ID |-> "p5", Input |-> Cmd(<<"git", "worktree", "add", "../work">>)]

RunEditCall == [Name |-> "Edit", ID |-> "t1", Input |-> NoInput]

RunCommitCall ==
    [Name |-> "Bash", ID |-> "t4", Input |-> Cmd(<<"git", "commit", "-m", "x">>)]

RunLsCall == [Name |-> "Bash", ID |-> "t5", Input |-> Cmd(<<"ls">>)]

RunTranscripts ==
    { TranscriptOf(<<RunTaskCall>>),
      TranscriptOf(<<RunWorktreeCall, RunTaskCall>>),
      TranscriptOf(<<RunEditCall, RunLsCall, RunLsCall>>),
      TranscriptOf(<<RunEditCall, RunCommitCall>>),
      TranscriptOf(<<RunEditCall, RunTaskCall>>) }

RunCheckers == {CommitAfterEditID, ParallelWorktreeID}

\* c.Check(t) is entered: the declarations at the top of Check
RunBegin ==
    /\ pc \in {"run", "done"}
    /\ Len(runs) < MaxRuns
    /\ \E c \in RunCheckers, tr \in RunTranscripts :
          /\ checker' = c
          /\ t' = tr
          /\ IF c = ParallelWorktreeID
             THEN /\ worktreeCreated' = worktreeCreatedAtEntry
                  /\ UNCHANGED pendingEdits
             ELSE /\ pendingEdits' = <<>>
                  /\ UNCHANGED worktreeCreated
    /\ violations' = <<>>
    /\ toolCalls' = <<>>
    /\ pc' = "scan"
    /\ UNCHANGED <<MaxToolCallsBeforeCommit, sleeps, lastCommand, lastCommandWasPolling,
                   data, err, runs,
                   executed>>
    /\ UNCHANGED registryVars

\* an iteration that clears the input of the call it has read
RunStepConsuming ==
    /\ checker \in RunCheckers
    /\ t # Nil
    /\ pc = "scan"
    /\ Len(toolCalls) < Len(t.ToolCalls)
    /\ LET i == Len(toolCalls)
           tc == t.ToolCalls[i + 1]
       IN /\ toolCalls' = Append(toolCalls, tc)
          /\ t' = [t EXCEPT !.ToolCalls[i + 1].Input = NoInput]
          /\ IF checker = ParallelWorktreeID
             THEN PwBody(tc) /\ UNCHANGED pendingEdits
             ELSE CaeBody(i, tc) /\ UNCHANGED worktreeCreated
    /\ UNCHANGED <<checker, MaxToolCallsBeforeCommit, pc, sleeps, lastCommand,
                   lastCommandWasPolling, runs,
                   executed>>
    /\ UNCHANGED <<data, err, registryVars>>

\* one iteration of for _, tc := range t.ToolCalls
RunStep ==
    /\ checker \in RunCheckers
    /\ t # Nil
    /\ pc = "scan"
    /\ Len(toolCalls) < Len(t.ToolCalls)
    /\ LET i == Len(toolCalls)
           tc == t.ToolCalls[i + 1]
       IN /\ toolCalls' = Append(toolCalls, tc)
          /\ IF checker = ParallelWorktreeID
             THEN PwBody(tc) /\ UNCHANGED pendingEdits
             ELSE CaeBody(i, tc) /\ UNCHANGED worktreeCreated
    /\ UNCHANGED <<checker, MaxToolCallsBeforeCommit, pc, sleeps, lastCommand,
                   lastCommandWasPolling, runs,
                   executed>>
    /\ UNCHANGED <<transcriptVars, registryVars>>

\* the code after the loop, and the return
RunReturn ==
    /\ checker \in RunCheckers
    /\ t # Nil
    /\ pc = "scan"
    /\ Len(toolCalls) = Len(t.ToolCalls)
    /\ violations' =
          IF checker = ParallelWorktreeID THEN violations
          ELSE violations \o
               [n \in 1..Len(pendingEdits) |-> EndViolation(pendingEdits[n])]
    /\ runs' = Append(runs, [checker |-> checker, t |-> t, violations |-> violations'])
    /\ pc' = "done"
    /\ UNCHANGED <<checker, MaxToolCallsBeforeCommit, toolCalls, pendingEdits, sleeps,
                   lastCommand, lastCommandWasPolling, worktreeCreated,
                   executed>>
    /\ UNCHANGED <<transcriptVars, registryVars>>

InitRuns ==
    /\ checker = ""
    /\ MaxToolCallsBeforeCommit = 1
    /\ toolCalls = <<>>
    /\ pc = "run"
    /\ pendingEdits = <<>>
    /\ violations = <<>>
    /\ sleeps = <<>>
    /\ lastCommand = <<>>
    /\ lastCommandWasPolling = FALSE
    /\ data = <<>>
    /\ t = Nil
    /\ err = Nil
    /\ RegistryUntouched
    /\ NoRuns

NextRuns == RunBegin \/ RunStep \/ RunReturn

SpecRuns == InitRuns /\ [][NextRuns]_vars

(***************************************************************************)
(* Run(t, checkers): the Check calls of one Run, all on the transcript the *)
(* caller passes by pointer.  The checkers of the list are entered in any  *)
(* order and any number of times.                                          *)
(***************************************************************************)
\* vs := c.Check(t) of the loop of Run is entered
RunEnter ==
    /\ pc \in {"run", "done"}
    /\ t # Nil
    /\ Len(runs) < MaxRuns
    /\ \E c \in RunCheckers :
          /\ checker' = c
          /\ IF c = ParallelWorktreeID
             THEN /\ worktreeCreated' = worktreeCreatedAtEntry
                  /\ UNCHANGED pendingEdits
             ELSE /\ pendingEdits' = <<>>
                  /\ UNCHANGED worktreeCreated
    /\ violations' = <<>>
    /\ toolCalls' = <<>>
    /\ pc' = "scan"
    /\ UNCHANGED <<MaxToolCallsBeforeCommit, sleeps, lastCommand, lastCommandWasPolling,
                   runs,
                   executed>>
    /\ UNCHANGED <<transcriptVars, registryVars>>

InitRun ==
    /\ checker = ""
    /\ MaxToolCallsBeforeCommit = 1
    /\ toolCalls = <<>>
    /\ pc = "run"
    /\ pendingEdits = <<>>
    /\ violations = <<>>
    /\ sleeps = <<>>
    /\ lastCommand = <<>>
    /\ lastCommandWasPolling = FALSE
    /\ data = <<>>
    /\ t \in RunTranscripts
    /\ err = Nil
    /\ RegistryUntouched
    /\ NoRuns

NextRun == RunEnter \/ RunStep \/ RunReturn

SpecRun == InitRun /\ [][NextRun]_vars

(***************************************************************************)
(* registry.go: the checker registry and the execution of checkers.        *)
(*                                                                         *)
(* registry is the map from id to Checker, a function whose domain is the  *)
(* set of registered ids.  The checkers registered are mockCheckers, whose *)
(* Check returns the violations they were made with whatever the           *)
(* transcript.  A range over the map visits its keys in an order the       *)
(* runtime chooses.  A panic nobody recovers ends the process: no action   *)
(* is enabled once panicked is set.  In this part every call runs to its   *)
(* end before the next one starts, so the lock is free when a call begins  *)
(* and free again when it returns; the calls of concurrent goroutines are  *)
(* in the next part.                                                       *)
(***************************************************************************)
SeverityInfo == 0
SeverityError == 2

\* Go's < on strings is the bytewise order; on the ids used here it is
\* their order in this list.
IDOrder == <<"checker-a", "checker-b", "checker-c", "nonexistent">>

StringLess(a, b) ==
    \E i, j \in 1..Len(IDOrder) : IDOrder[i] = a /\ IDOrder[j] = b /\ i < j

mockChecker(id, vs) == [id |-> id, violations |-> vs]

ID(c) == c.id

\* mockChecker.Check
Check(c, tr) == c.violations

MockViolation(id, severity, message) ==
    [CheckerID |-> id, Severity |-> severity, Message |-> message]

CheckerA == mockChecker("checker-a",
                <<MockViolation("checker-a", SeverityError, "error 1")>>)

CheckerB == mockChecker("checker-b",
                <<MockViolation("checker-b", SeverityWarning, "warning 1"),
                  MockViolation("checker-b", SeverityInfo, "info 1")>>)

\* a second checker with the id of CheckerB
CheckerB2 == mockChecker("checker-b", <<>>)

CheckerC == mockChecker("checker-c",
                <<MockViolation("checker-c", SeverityInfo, "info 2")>>)

Checkers == {CheckerA, CheckerB, CheckerB2, CheckerC}

CheckerIDs == {"checker-a", "checker-b", "checker-c", "nonexistent"}

\* _, exists := registry[id]
Exists(reg, id) == id \in DOMAIN reg

\* registry[id] = c
Store(reg, id, c) ==
    [x \in DOMAIN reg \cup {id} |-> IF x = id THEN c ELSE reg[x]]

AlreadyRegistered(id) == <<"checker already registered: ", id>>

RegisterOutcomeReplace(reg, c) ==
    [registry |-> Store(reg, ID(c), c),
     panic |-> IF Exists(reg, ID(c)) THEN AlreadyRegistered(ID(c)) ELSE Nil]

\* Register between Lock and the deferred Unlock
RegisterOutcome(reg, c) ==
    IF Exists(reg, ID(c))
    THEN [registry |-> reg, panic |-> AlreadyRegistered(ID(c))]
    ELSE [registry |-> Store(reg, ID(c), c), panic |-> Nil]

\* return registry[id]: the zero value, nil, for a missing key
GetByID(reg, id) == IF Exists(reg, id) THEN reg[id] ELSE Nil

\* The orders in which a range over a map with these keys can visit them
Orders(keys) ==
    { order \in [1..Cardinality(keys) -> keys] :
        \A i, j \in 1..Cardinality(keys) : i # j => order[i] # order[j] }

\* sort.Slice(checkers, func(i, j) { checkers[i].ID() < checkers[j].ID() }):
\* the ids are distinct, so the sorted slice does not depend on the
\* algorithm; insertion sort.
RECURSIVE InsertByID(_, _)
InsertByID(sorted, c) ==
    IF sorted = <<>> THEN <<c>>
    ELSE IF StringLess(ID(c), ID(Head(sorted)))
         THEN <<c>> \o sorted
         ELSE <<Head(sorted)>> \o InsertByID(Tail(sorted), c)

RECURSIVE SortSlice(_)
SortSlice(checkers) ==
    IF checkers = <<>> THEN <<>>
    ELSE InsertByID(SortSlice(SubSeq(checkers, 1, Len(checkers) - 1)),
                    checkers[Len(checkers)])

RECURSIVE InsertString(_, _)
InsertString(sorted, id) ==
    IF sorted = <<>> THEN <<id>>
    ELSE IF StringLess(id, Head(sorted))
         THEN <<id>> \o sorted
         ELSE <<Head(sorted)>> \o InsertString(Tail(sorted), id)

KeepOrder(ids) == ids

\* sort.Strings(ids)
RECURSIVE SortStrings(_)
SortStrings(ids) ==
    IF ids = <<>> THEN <<>>
    ELSE InsertString(SortStrings(SubSeq(ids, 1, Len(ids) - 1)), ids[Len(ids)])

\* GetAll, the range visiting the keys in the given order
GetAll(reg, order) == SortSlice([k \in 1..Len(order) |-> reg[order[k]]])

\* IDs, the range visiting the keys in the given order
IDs(reg, order) == SortStrings(order)

AppendFirstViolation(vs, new) ==
    IF new = <<>> THEN vs ELSE Append(vs, Head(new))

\* result.Violations = append(result.Violations, violations...)
AppendViolations(vs, new) == vs \o new

\* the loop of Run, from checkers[k] on
RECURSIVE RunLoop(_, _, _, _)
RunLoop(tr, checkers, k, res) ==
    IF k > Len(checkers) THEN res
    ELSE RunLoop(tr, checkers, k + 1,
                 [res EXCEPT !.CheckersRun = Append(res.CheckersRun, ID(checkers[k])),
                             !.Violations = AppendViolations(res.Violations,
                                                             Check(checkers[k], tr))])

Run(tr, checkers) ==
    RunLoop(tr, checkers, 1,
            [TranscriptPath |-> "", Violations |-> <<>>, CheckersRun |-> <<>>])

RunAll(reg, order, tr) == Run(tr, GetAll(reg, order))

SelectWithDefault(reg, ids, k, checkers) ==
    [n \in 1..Len(ids) |-> IF Exists(reg, ids[n]) THEN reg[ids[n]] ELSE CheckerA]

\* the loop of RunByIDs, from ids[k] on
RECURSIVE SelectCheckers(_, _, _, _)
SelectCheckers(reg, ids, k, checkers) ==
    IF k > Len(ids) THEN checkers
    ELSE IF GetByID(reg, ids[k]) # Nil
         THEN SelectCheckers(reg, ids, k + 1, Append(checkers, GetByID(reg, ids[k])))
         ELSE SelectCheckers(reg, ids, k + 1, checkers)

RunByIDs(reg, tr, ids) == Run(tr, SelectCheckers(reg, ids, 1, <<>>))

\* The ids arguments of RunByIDs
IDLists == UNION { [1..n -> CheckerIDs] : n \in 0..MaxIDs }

Register ==
    /\ pc = "registry"
    /\ panicked = Nil
    /\ registryMu = Unlocked
    /\ \E c \in Checkers :
          /\ registry' = RegisterOutcome(registry, c).registry
          /\ panicked' = RegisterOutcome(registry, c).panic
          /\ call' = [op |-> "Register", c |-> c]
    /\ returned' = Nil
    /\ UNCHANGED <<registryMu, goroutines>>
    /\ UNCHANGED <<checkerVars, transcriptVars, runVars>>

Clear ==
    /\ pc = "registry"
    /\ panicked = Nil
    /\ registryMu = Unlocked
    /\ registry' = EmptyRegistry
    /\ call' = [op |-> "Clear"]
    /\ returned' = Nil
    /\ UNCHANGED <<registryMu, goroutines, panicked>>
    /\ UNCHANGED <<checkerVars, transcriptVars, runVars>>

CallGetByID ==
    /\ pc = "registry"
    /\ panicked = Nil
    /\ registryMu = Unlocked
    /\ \E id \in CheckerIDs :
          /\ returned' = GetByID(registry, id)
          /\ call' = [op |-> "GetByID", id |-> id]
    /\ UNCHANGED <<registry, registryMu, goroutines, panicked>>
    /\ UNCHANGED <<checkerVars, transcriptVars, runVars>>

CallGetAll ==
    /\ pc = "registry"
    /\ panicked = Nil
    /\ registryMu = Unlocked
    /\ \E order \in Orders(DOMAIN registry) : returned' = GetAll(registry, order)
    /\ call' = [op |-> "GetAll"]
    /\ UNCHANGED <<registry, registryMu, goroutines, panicked>>
    /\ UNCHANGED <<checkerVars, transcriptVars, runVars>>

CallIDs ==
    /\ pc = "registry"
    /\ panicked = Nil
    /\ registryMu = Unlocked
    /\ \E order \in Orders(DOMAIN registry) : returned' = IDs(registry, order)
    /\ call' = [op |-> "IDs"]
    /\ UNCHANGED <<registry, registryMu, goroutines, panicked>>
    /\ UNCHANGED <<checkerVars, transcriptVars, runVars>>

CallRunAll ==
    /\ pc = "registry"
    /\ panicked = Nil
    /\ registryMu = Unlocked
    /\ \E order \in Orders(DOMAIN registry) : returned' = RunAll(registry, order, t)
    /\ call' = [op |-> "RunAll"]
    /\ UNCHANGED <<registry, registryMu, goroutines, panicked>>
    /\ UNCHANGED <<checkerVars, transcriptVars, runVars>>

CallRunByIDs ==
    /\ pc = "registry"
    /\ panicked = Nil
    /\ registryMu = Unlocked
    /\ \E ids \in IDLists :
          /\ returned' = RunByIDs(registry, t, ids)
          /\ call' = [op |-> "RunByIDs", ids |-> ids]
    /\ UNCHANGED <<registry, registryMu, goroutines, panicked>>
    /\ UNCHANGED <<checkerVars, transcriptVars, runVars>>

InitRegistry ==
    /\ checker = ""
    /\ MaxToolCallsBeforeCommit = 0
    /\ toolCalls = <<>>
    /\ pc = "registry"
    /\ pendingEdits = <<>>
    /\ violations = <<>>
    /\ sleeps = <<>>
    /\ lastCommand = <<>>
    /\ lastCommandWasPolling = FALSE
    /\ data = <<>>
    /\ t = NewTranscript
    /\ err = Nil
    /\ RegistryUntouched
    /\ NoRuns

NextRegistry ==
    \/ Register \/ Clear
    \/ CallGetByID \/ CallGetAll \/ CallIDs
    \/ CallRunAll \/ CallRunByIDs

SpecRegistry == InitRegistry /\ [][NextRegistry]_vars

(***************************************************************************)
(* registry.go called from concurrent goroutines.                          *)
(*                                                                         *)
(* Every goroutine makes one call.  A call is a sequence of steps: taking  *)
(* registryMu in the mode the function uses, the body, and the deferred    *)
(* release, which for Register is reached by return or by the panic.  The  *)
(* steps of different goroutines interleave.  sync.RWMutex grants Lock     *)
(* when nobody holds the mutex and RLock when no writer holds it.  Between *)
(* the deferred Unlock of a panicking Register and the end of the process  *)
(* the other goroutines still run.                                         *)
(***************************************************************************)
GoRegister(c) == [op |-> "Register", c |-> c]

GoCalls ==
    { GoRegister(CheckerB), GoRegister(CheckerB2),
      [op |-> "Clear"],
      [op |-> "GetByID", id |-> "checker-b"],
      [op |-> "GetAll"],
      [op |-> "IDs"] }

LockModeShared(op) == "RLock"

\* registryMu.Lock() in Register and Clear, registryMu.RLock() in the others
LockMode(op) == IF op \in {"Register", "Clear"} THEN "Lock" ELSE "RLock"

CanAcquire(mu, mode) ==
    IF mode = "Lock" THEN mu.writer = {} /\ mu.readers = {}
    ELSE mu.writer = {}

Acquire(mu, g, mode) ==
    IF mode = "Lock" THEN [mu EXCEPT !.writer = mu.writer \cup {g}]
    ELSE [mu EXCEPT !.readers = mu.readers \cup {g}]

\* the deferred Unlock or RUnlock of goroutine g
Release(mu, g) == [writer |-> mu.writer \ {g}, readers |-> mu.readers \ {g}]

\* what a reading call returns
ReadResult(reg, c, order) ==
    CASE c.op = "GetByID" -> GetByID(reg, c.id)
      [] c.op = "GetAll" -> GetAll(reg, order)
      [] c.op = "IDs" -> IDs(reg, order)

\* go f(...)
Go ==
    /\ pc = "goroutines"
    /\ panicked = Nil
    /\ Len(goroutines) < MaxGoroutines
    /\ \E c \in GoCalls :
          goroutines' = Append(goroutines, [call |-> c, pc |-> "call", ret |-> Nil])
    /\ UNCHANGED <<registry, registryMu, panicked, call, returned>>
    /\ UNCHANGED <<checkerVars, transcriptVars, runVars>>

GoLock ==
    /\ pc = "goroutines"
    /\ panicked = Nil
    /\ \E g \in DOMAIN goroutines :
          /\ goroutines[g].pc = "call"
          /\ CanAcquire(registryMu, LockMode(goroutines[g].call.op))
          /\ registryMu' = Acquire(registryMu, g, LockMode(goroutines[g].call.op))
          /\ goroutines' = [goroutines EXCEPT ![g].pc = "locked"]
    /\ UNCHANGED <<registry, panicked, call, returned>>
    /\ UNCHANGED <<checkerVars, transcriptVars, runVars>>

\* Register: if _, exists := registry[id]; exists { panic(...) }
GoRegisterCheck ==
    /\ pc = "goroutines"
    /\ panicked = Nil
    /\ \E g \in DOMAIN goroutines :
          /\ goroutines[g].call.op = "Register"
          /\ goroutines[g].pc = "locked"
          /\ goroutines' =
                [goroutines EXCEPT ![g].pc =
                    IF Exists(registry, ID(goroutines[g].call.c))
                    THEN "panicking" ELSE "store"]
    /\ UNCHANGED <<registry, registryMu, panicked, call, returned>>
    /\ UNCHANGED <<checkerVars, transcriptVars, runVars>>

\* Register: registry[id] = c, return, deferred Unlock
GoRegisterStore ==
    /\ pc = "goroutines"
    /\ panicked = Nil
    /\ \E g \in DOMAIN goroutines :
          /\ goroutines[g].call.op = "Register"
          /\ goroutines[g].pc = "store"
          /\ registry' = Store(registry, ID(goroutines[g].call.c), goroutines[g].call.c)
          /\ registryMu' = Release(registryMu, g)
          /\ goroutines' = [goroutines EXCEPT ![g].pc = "done"]
    /\ UNCHANGED <<panicked, call, returned>>
    /\ UNCHANGED <<checkerVars, transcriptVars, runVars>>

\* a panic that leaves Register without running the deferred Unlock
GoRegisterUnwindLocked ==
    /\ pc = "goroutines"
    /\ panicked = Nil
    /\ \E g \in DOMAIN goroutines :
          /\ goroutines[g].pc = "panicking"
          /\ goroutines' = [goroutines EXCEPT ![g].pc = "unwound"]
    /\ UNCHANGED <<registry, registryMu, panicked, call, returned>>
    /\ UNCHANGED <<checkerVars, transcriptVars, runVars>>

\* Register: the deferred Unlock run by the panic
GoRegisterUnwind ==
    /\ pc = "goroutines"
    /\ panicked = Nil
    /\ \E g \in DOMAIN goroutines :
          /\ goroutines[g].pc = "panicking"
          /\ registryMu' = Release(registryMu, g)
          /\ goroutines' = [goroutines EXCEPT ![g].pc = "unwound"]
    /\ UNCHANGED <<registry, panicked, call, returned>>
    /\ UNCHANGED <<checkerVars, transcriptVars, runVars>>

\* the panic reaches the top of the goroutine: the process ends
GoCrash ==
    /\ pc = "goroutines"
    /\ panicked = Nil
    /\ \E g \in DOMAIN goroutines :
          /\ goroutines[g].pc = "unwound"
          /\ panicked' = AlreadyRegistered(ID(goroutines[g].call.c))
          /\ goroutines' = [goroutines EXCEPT ![g].pc = "crashed"]
    /\ UNCHANGED <<registry, registryMu, call, returned>>
    /\ UNCHANGED <<checkerVars, transcriptVars, runVars>>

\* Clear: registry = make(map[string]Checker), deferred Unlock
GoClear ==
    /\ pc = "goroutines"
    /\ panicked = Nil
    /\ \E g \in DOMAIN goroutines :
          /\ goroutines[g].call.op = "Clear"
          /\ goroutines[g].pc = "locked"
          /\ registry' = EmptyRegistry
          /\ registryMu' = Release(registryMu, g)
          /\ goroutines' = [goroutines EXCEPT ![g].pc = "done"]
    /\ UNCHANGED <<panicked, call, returned>>
    /\ UNCHANGED <<checkerVars, transcriptVars, runVars>>

\* GetByID, GetAll, IDs: the body, deferred RUnlock
GoRead ==
    /\ pc = "goroutines"
    /\ panicked = Nil
    /\ \E g \in DOMAIN goroutines :
          /\ goroutines[g].call.op \in {"GetByID", "GetAll", "IDs"}
          /\ goroutines[g].pc = "locked"
          /\ \E order \in Orders(DOMAIN registry) :
                goroutines' =
                    [goroutines EXCEPT
                        ![g].pc = "done",
                        ![g].ret = ReadResult(registry, goroutines[g].call, order)]
          /\ registryMu' = Release(registryMu, g)
    /\ UNCHANGED <<registry, panicked, call, returned>>
    /\ UNCHANGED <<checkerVars, transcriptVars, runVars>>

InitGoroutines ==
    /\ checker = ""
    /\ MaxToolCallsBeforeCommit = 0
    /\ toolCalls = <<>>
    /\ pc = "goroutines"
    /\ pendingEdits = <<>>
    /\ violations = <<>>
    /\ sleeps = <<>>
    /\ lastCommand = <<>>
    /\ lastCommandWasPolling = FALSE
    /\ data = <<>>
    /\ t = NewTranscript
    /\ err = Nil
    /\ RegistryUntouched
    /\ NoRuns

NextGoroutines ==
    \/ Go \/ GoLock
    \/ GoRegisterCheck \/ GoRegisterStore \/ GoRegisterUnwind \/ GoCrash
    \/ GoClear \/ GoRead

SpecGoroutines == InitGoroutines /\ [][NextGoroutines]_vars

(***************************************************************************)
(* cmd/agents-lint/main.go: runCheck.                                      *)
(*                                                                         *)
(* The process registers its checkers (the init functions), then main      *)
(* calls runCheck once and exits with the code it returns.  The arguments  *)
(* are given as the outcome of their parsing: whether the flag set         *)
(* accepts them (it ends the process with code 2 when it does not),        *)
(* whether a path is left, and the values of the flags; -checker is the    *)
(* list strings.Split makes of it, the empty list for the empty flag.  The *)
(* file is given as what ParseFile returns for it, and the standard        *)
(* output as whether writing to it fails.                                  *)
(***************************************************************************)
exitOK == 0
exitViolations == 1
exitError == 2

Formats == {"text", "json", "xml"}

FailOns == {"error", "warning", "info", "none"}

\* ParseFile(path): a transcript, or an error
Files ==
    { [t |-> NewTranscript, err |-> Nil],
      [t |-> Nil, err |-> ParseError(0, "parse event type")] }

Arguments ==
    [flagsOK : BOOLEAN, path : BOOLEAN, checker : IDLists, format : Formats,
     failOn : FailOns, file : Files, writeFails : BOOLEAN]

CountSeverity(vs, severity) ==
    Cardinality({ k \in 1..Len(vs) : vs[k].Severity = severity })

\* Result.Summary
Summary(res) ==
    [errors |-> CountSeverity(res.Violations, SeverityError),
     warnings |-> CountSeverity(res.Violations, SeverityWarning),
     infos |-> CountSeverity(res.Violations, SeverityInfo)]

ExitOnErrorsOnly(failOn, sum) ==
    IF failOn \in {"error", "warning", "info"}
    THEN (IF sum.errors > 0 THEN exitViolations ELSE exitOK)
    ELSE exitError

\* switch *failOn
ExitOnViolations(failOn, sum) ==
    CASE failOn = "error" ->
            IF sum.errors > 0 THEN exitViolations ELSE exitOK
      [] failOn = "warning" ->
            IF sum.errors > 0 \/ sum.warnings > 0 THEN exitViolations ELSE exitOK
      [] failOn = "info" ->
            IF sum.errors > 0 \/ sum.warnings > 0 \/ sum.infos > 0
            THEN exitViolations ELSE exitOK
      [] OTHER -> exitError

\* switch *format, and what follows it
ExitAfterReport(args, res) ==
    CASE args.format = "json" ->
            IF args.writeFails THEN exitError
            ELSE ExitOnViolations(args.failOn, Summary(res))
      [] args.format = "text" -> ExitOnViolations(args.failOn, Summary(res))
      [] OTHER -> exitError

\* the Result runCheck gets from the checkers
CheckResult(args, reg, order) ==
    IF args.checker # <<>>
    THEN RunByIDs(reg, args.file.t, args.checker)
    ELSE RunAll(reg, order, args.file.t)

\* runCheck: the exit code, and the Result reported if the checkers ran
runCheckOutcome(args, reg, order) ==
    IF ~args.flagsOK THEN [exit |-> exitError, result |-> Nil]
    ELSE IF ~args.path THEN [exit |-> exitError, result |-> Nil]
    ELSE IF args.file.err # Nil THEN [exit |-> exitError, result |-> Nil]
    ELSE [exit |-> ExitAfterReport(args, CheckResult(args, reg, order)),
          result |-> [CheckResult(args, reg, order) EXCEPT
                         !.TranscriptPath = "transcript.ndjson"]]

runCheck ==
    /\ pc = "registry"
    /\ panicked = Nil
    /\ registryMu = Unlocked
    /\ \E args \in Arguments, order \in Orders(DOMAIN registry) :
          /\ call' = [op |-> "runCheck", args |-> args]
          /\ returned' = runCheckOutcome(args, registry, order)
          /\ t' = IF args.flagsOK /\ args.path THEN args.file.t ELSE t
          /\ err' = IF args.flagsOK /\ args.path THEN args.file.err ELSE err
    /\ pc' = "exited"
    /\ UNCHANGED <<registry, registryMu, goroutines, panicked>>
    /\ UNCHANGED <<checker, MaxToolCallsBeforeCommit, toolCalls, pendingEdits, violations,
                   sleeps, lastCommand, lastCommandWasPolling, data>>
    /\ UNCHANGED runVars

NextCli == Register \/ runCheck

SpecCli == InitRegistry /\ [][NextCli]_vars

(***************************************************************************)
(* The three tool-call scans that decode a tool input, side by side: one   *)
(* run is one Check of commit-after-edit, exponential-backoff or           *)
(* parallel-worktree.                                                      *)
(***************************************************************************)
InitScans == InitCae \/ InitBo \/ InitPw

NextScans == CaeStep \/ CaeFinish \/ BoStep \/ BoFinish \/ PwStep \/ PwFinish

SpecScans == InitScans /\ [][NextScans]_vars

(***************************************************************************)
(* registry.go called by goroutines that recover the panic of Register, as *)
(* TestRegisterDuplicate does with its deferred recover(): the process     *)
(* goes on after a duplicate registration.                                 *)
(***************************************************************************)
\* the value recover() returns in the deferred function of the caller
Recovered(id) == [recovered |-> AlreadyRegistered(id)]

\* defer func() { recover() }() of the caller, after the deferred Unlock
GoRecover ==
    /\ pc = "goroutines"
    /\ panicked = Nil
    /\ \E g \in DOMAIN goroutines :
          /\ goroutines[g].pc = "unwound"
          /\ goroutines' =
                [goroutines EXCEPT
                    ![g].pc = "done",
                    ![g].ret = Recovered(ID(goroutines[g].call.c))]
    /\ UNCHANGED <<registry, registryMu, panicked, call, returned>>
    /\ UNCHANGED <<checkerVars, transcriptVars, runVars>>

\* the steps of the calls that have been made
RecoverSteps ==
    \/ GoLock
    \/ GoRegisterCheck \/ GoRegisterStore \/ GoRegisterUnwind \/ GoRecover
    \/ GoClear \/ GoRead

NextRecover == Go \/ RecoverSteps

\* the Go scheduler runs every goroutine that can take a step
SpecRecover == InitGoroutines /\ [][NextRecover]_vars /\ WF_vars(RecoverSteps)

(***************************************************************************)
(* no-todowrite: one scan over t.ToolCalls, one loop iteration per step.   *)
(***************************************************************************)
NoTodoWriteID == "no-todowrite"

TodoWriteNames == {"TodoWrite", "todowrite"}

isTodoWriteAnyCase(name) == name \in TodoWriteNames

\* tc.Name == "TodoWrite"
isTodoWrite(name) == name = "TodoWrite"

TodoWriteViolation(tc) ==
    [CheckerID |-> NoTodoWriteID,
     Rule |-> "Rule 2",
     Severity |-> SeverityError,
     Message |-> "TodoWrite tool used; use bd for task tracking instead",
     EventUUID |-> tc.EventUUID,
     ToolCallID |-> tc.ID]

\* One iteration of the loop of NoTodoWrite.Check on tool call tc.
NtBody(tc) ==
    violations' = IF isTodoWrite(tc.Name)
                  THEN Append(violations, TodoWriteViolation(tc))
                  ELSE violations

NtInputs ==
    { [Name |-> "Read", ID |-> "t1", Input |-> NoInput],
      [Name |-> "TodoWrite", ID |-> "t2", Input |-> NoInput],
      [Name |-> "Write", ID |-> "t3", Input |-> NoInput],
      [Name |-> "TodoWrite", ID |-> "t4", Input |-> BadInput],
      [Name |-> "todowrite", ID |-> "t5", Input |-> NoInput] }

NtStep ==
    /\ checker = NoTodoWriteID
    /\ pc = "scan"
    /\ Len(toolCalls) < MaxNtCalls
    /\ \E inp \in NtInputs :
          LET tc == ToolCall(inp, Len(toolCalls))
          IN /\ toolCalls' = Append(toolCalls, tc)
             /\ NtBody(tc)
    /\ UNCHANGED <<checker, MaxToolCallsBeforeCommit, pc, pendingEdits, sleeps,
                   lastCommand, lastCommandWasPolling>>
    /\ UNCHANGED <<transcriptVars, registryVars, runVars>>

\* return violations
NtFinish ==
    /\ checker = NoTodoWriteID
    /\ pc = "scan"
    /\ pc' = "done"
    /\ UNCHANGED <<checker, MaxToolCallsBeforeCommit, toolCalls, pendingEdits, violations,
                   sleeps, lastCommand, lastCommandWasPolling>>
    /\ UNCHANGED <<transcriptVars, registryVars, runVars>>

InitNt ==
    /\ checker = NoTodoWriteID
    /\ MaxToolCallsBeforeCommit = 0
    /\ toolCalls = <<>>
    /\ pc = "scan"
    /\ pendingEdits = <<>>
    /\ violations = <<>>
    /\ sleeps = <<>>
    /\ lastCommand = <<>>
    /\ lastCommandWasPolling = FALSE
    /\ data = <<>>
    /\ t = Nil
    /\ err = Nil
    /\ RegistryUntouched
    /\ NoRuns

NextNt == NtStep \/ NtFinish

SpecNt == InitNt /\ [][NextNt]_vars

(***************************************************************************)
(* rules: extractBehaviors.                                                *)
(*                                                                         *)
(* A line is the number of backquotes it starts with and the words after   *)
(* them; the bold marker is a word of its own.  The lines are given one by *)
(* one, then extractBehaviors runs over them in one action and its two     *)
(* results are kept in returned.                                           *)
(***************************************************************************)
ExtractBehaviorsID == "extractBehaviors"

Bold == "**"

TextLine(words) == [ticks |-> 0, words |-> words]

\* a line of three backquotes and, without a space, the words
FenceLine(words) == [ticks |-> 3, words |-> words]

\* codeBlockStart: three backquotes at the start of the line, then any
\* number of word characters (none included)
codeBlockStart(line) == line.ticks >= 3

\* codeBlockEnd: three backquotes and nothing but white space after them
codeBlockEnd(line) == line.ticks = 3 /\ line.words = <<>>

HasWord(line, words) == \E k \in 1..Len(line.words) : line.words[k] \in words

\* (?i)\bNEVER\b
neverPattern(line) == HasWord(line, {"NEVER", "never"})

\* (?i)\bMUST\b, or must inside a bold span
mustPattern(line) == HasWord(line, {"MUST", "must"})

\* (?i)\bALWAYS\b, or always inside a bold span
alwaysPattern(line) == HasWord(line, {"ALWAYS", "always"})

\* boldPattern.ReplaceAllString(line, "$1"): the markers go, the text stays
ReplaceBold(words) == SelectSeq(words, LAMBDA w : w # Bold)

\* the number of bytes of a word
Chars(w) ==
    CASE w \in {"to", "do"} -> 2
      [] w \in {"You"} -> 3
      [] w \in {"Some", "text", "here", "MUST", "bash"} -> 4
      [] w \in {"NEVER", "never", "main.", "after"} -> 5
      [] w \in {"ALWAYS", "commit", "making"} -> 6
      [] w \in {"request"} -> 7
      [] w \in {"directly", "changes."} -> 8
      [] w \in {"approval."} -> 9

RECURSIVE SumChars(_, _)
SumChars(words, k) ==
    IF k > Len(words) THEN 0 ELSE Chars(words[k]) + SumChars(words, k + 1)

\* len(text) of the words joined by single spaces
ByteLen(words) ==
    IF words = <<>> THEN 0 ELSE SumChars(words, 1) + Len(words) - 1

MinBehaviorLen == 10

\* extractBehaviorText: the line without its bold markers, or the empty
\* string when that is shorter than 10 bytes
extractBehaviorText(line) ==
    LET text == ReplaceBold(line.words)
    IN IF ByteLen(text) < MinBehaviorLen THEN <<>> ELSE text

AppendBehavior(list, behavior) ==
    IF behavior # <<>> THEN Append(list, behavior) ELSE list

\* the two tests on a line outside a code block
ScanLine(res, line) ==
    [required |->
         IF mustPattern(line) \/ alwaysPattern(line)
         THEN AppendBehavior(res.required, extractBehaviorText(line))
         ELSE res.required,
     prohibited |->
         IF neverPattern(line)
         THEN AppendBehavior(res.prohibited, extractBehaviorText(line))
         ELSE res.prohibited]

\* the loop of extractBehaviors from lines[k] on
RECURSIVE ExtractLoop(_, _, _, _)
ExtractLoop(lines, k, inCodeBlock, res) ==
    IF k > Len(lines) THEN res
    ELSE IF codeBlockStart(lines[k]) THEN ExtractLoop(lines, k + 1, TRUE, res)
    ELSE IF codeBlockEnd(lines[k]) THEN ExtractLoop(lines, k + 1, FALSE, res)
    ELSE IF inCodeBlock THEN ExtractLoop(lines, k + 1, inCodeBlock, res)
    ELSE ExtractLoop(lines, k + 1, inCodeBlock, ScanLine(res, lines[k]))

extractBehaviors(lines) ==
    ExtractLoop(lines, 1, FALSE, [required |-> <<>>, prohibited |-> <<>>])

\* Lines of the sections scanned
EbInputs ==
    { TextLine(<<"Some", "text", "here">>),
      FenceLine(<<"bash">>),
      FenceLine(<<>>),
      TextLine(<<Bold, "NEVER", "commit", "directly", "to", "main.", Bold>>),
      TextLine(<<"ALWAYS", "commit", "after", "making", "changes.">>),
      TextLine(<<"You", "MUST", "request", "approval.">>),
      TextLine(<<"NEVER", "do">>) }

\* the caller hands over one more line of the section
EbReadLine ==
    /\ checker = ExtractBehaviorsID
    /\ pc = "input"
    /\ Len(data) < MaxEbLines
    /\ \E line \in EbInputs : data' = Append(data, line)
    /\ UNCHANGED <<t, err>>
    /\ UNCHANGED checkerVars
    /\ UNCHANGED <<registryVars, runVars>>

\* required, prohibited := extractBehaviors(sec.lines)
EbExtract ==
    /\ checker = ExtractBehaviorsID
    /\ pc = "input"
    /\ returned' = extractBehaviors(data)
    /\ pc' = "done"
    /\ UNCHANGED <<checker, MaxToolCallsBeforeCommit, toolCalls, pendingEdits, violations,
                   sleeps, lastCommand, lastCommandWasPolling>>
    /\ UNCHANGED transcriptVars
    /\ UNCHANGED <<registry, registryMu, goroutines, panicked, call>>
    /\ UNCHANGED runVars

InitEb ==
    /\ checker = ExtractBehaviorsID
    /\ MaxToolCallsBeforeCommit = 0
    /\ toolCalls = <<>>
    /\ pc = "input"
    /\ pendingEdits = <<>>
    /\ violations = <<>>
    /\ sleeps = <<>>
    /\ lastCommand = <<>>
    /\ lastCommandWasPolling = FALSE
    /\ data = <<>>
    /\ t = Nil
    /\ err = Nil
    /\ RegistryUntouched
    /\ NoRuns

NextEb == EbReadLine \/ EbExtract

SpecEb == InitEb /\ [][NextEb]_vars

(***************************************************************************)
(* runner: Runner.Run.                                                     *)
(*                                                                         *)
(* One call of Run, a step per command it starts: the code up to the setup *)
(* loop, one setup command, the agent, one cleanup command, and the code   *)
(* after the cleanup loop.  What the environment answers (a file that      *)
(* cannot be read, the exit of a command, the agent running into its       *)
(* timeout, the transcript it wrote) is chosen at the step that asks.  The *)
(* context passed by the caller is not cancelled.  executed lists the      *)
(* commands started, call is the scenario and the configuration, returned  *)
(* the result.                                                             *)
(***************************************************************************)
RunnerID == "runner"

\* the first n of the commands
FirstCommands(cmds, n) == SubSeq(cmds, 1, n)

Scenarios ==
    { [SetupCommands |-> FirstCommands(<<"git init", "make setup">>, n),
       CleanupCommands |-> FirstCommands(<<"make clean", "git clean -fd">>, m),
       WorkDir |-> dir,
       ExpectPass |-> pass,
       ExpectViolations |-> expect] :
        n \in 0..MaxCommands, m \in 0..MaxCommands, dir \in {"", "repo"},
        pass \in BOOLEAN, expect \in {<<>>, <<"no-todowrite">>} }

\* result.Error = fmt.Errorf(...); return result
ErrorResult(what) == [Error |-> [msg |-> what], Passed |-> FALSE, ViolationCount |-> 0]

Executed(phase) == SelectSeq(executed, LAMBDA e : e.phase = phase)

\* what RunAll reports: the checkers that found a violation, one each
CheckOutcomes == SUBSET {"no-todowrite", "context-report"}

\* checkResult.HasErrors(): of the two, no-todowrite reports errors
HasErrors(found) == "no-todowrite" \in found

\* the expectations of the scenario against the check result
Passed(s, found) ==
    IF s.ExpectPass THEN ~HasErrors(found)
    ELSE IF Len(s.ExpectViolations) > 0
    THEN \A k \in 1..Len(s.ExpectViolations) : s.ExpectViolations[k] \in found
    ELSE ~HasErrors(found)

\* Run up to the setup loop: the arguments, AGENTS.md, the dry run, the
\* working directory
RunnerRun ==
    /\ checker = RunnerID
    /\ pc = "runner"
    /\ \E s \in Scenarios, dryRun \in BOOLEAN, readOK \in BOOLEAN, mkdirOK \in BOOLEAN :
          /\ call' = [op |-> "Run", s |-> s, DryRun |-> dryRun]
          /\ IF ~readOK
             THEN returned' = ErrorResult("read AGENTS.md") /\ pc' = "returned"
             ELSE IF dryRun
             THEN /\ returned' = [Error |-> Nil, Passed |-> FALSE, ViolationCount |-> 0]
                  /\ pc' = "returned"
             ELSE IF s.WorkDir = "" /\ ~mkdirOK
             THEN returned' = ErrorResult("create temp dir") /\ pc' = "returned"
             ELSE returned' = Nil /\ pc' = "setup"
    /\ UNCHANGED <<checker, MaxToolCallsBeforeCommit, toolCalls, pendingEdits, violations,
                   sleeps, lastCommand, lastCommandWasPolling>>
    /\ UNCHANGED <<registry, registryMu, goroutines, panicked>>
    /\ UNCHANGED <<transcriptVars, runVars>>

\* one iteration of for _, cmd := range s.SetupCommands
RunnerSetup ==
    /\ checker = RunnerID
    /\ pc = "setup"
    /\ Len(Executed("setup")) < Len(call.s.SetupCommands)
    /\ \E ok \in BOOLEAN :
          LET cmd == call.s.SetupCommands[Len(Executed("setup")) + 1]
          IN /\ executed' = Append(executed, [phase |-> "setup", cmd |-> cmd, ok |-> ok])
             /\ IF ok
                THEN UNCHANGED <<returned, pc>>
                ELSE returned' = ErrorResult("setup command") /\ pc' = "returned"
    /\ UNCHANGED <<checker, MaxToolCallsBeforeCommit, toolCalls, pendingEdits, violations,
                   sleeps, lastCommand, lastCommandWasPolling>>
    /\ UNCHANGED <<registry, registryMu, goroutines, panicked, call>>
    /\ UNCHANGED <<transcriptVars, worktreeCreated, runs>>

\* err := cmd.Run() of the agent, under the timeout of the scenario
RunnerAgent ==
    /\ checker = RunnerID
    /\ pc = "setup"
    /\ Len(Executed("setup")) = Len(call.s.SetupCommands)
    /\ \E exit \in {"zero", "nonzero", "timeout"} :
          /\ executed' = Append(executed,
                                [phase |-> "agent", cmd |-> "claude", ok |-> exit = "zero"])
          /\ IF exit = "timeout"
             THEN returned' = ErrorResult("timeout") /\ pc' = "returned"
             ELSE UNCHANGED returned /\ pc' = "cleanup"
    /\ UNCHANGED <<checker, MaxToolCallsBeforeCommit, toolCalls, pendingEdits, violations,
                   sleeps, lastCommand, lastCommandWasPolling>>
    /\ UNCHANGED <<registry, registryMu, goroutines, panicked, call>>
    /\ UNCHANGED <<transcriptVars, worktreeCreated, runs>>

\* one iteration of for _, cmd := range s.CleanupCommands
RunnerCleanup ==
    /\ checker = RunnerID
    /\ pc = "cleanup"
    /\ Len(Executed("cleanup")) < Len(call.s.CleanupCommands)
    /\ \E ok \in BOOLEAN :
          LET cmd == call.s.CleanupCommands[Len(Executed("cleanup")) + 1]
          IN executed' = Append(executed, [phase |-> "cleanup", cmd |-> cmd, ok |-> ok])
    /\ UNCHANGED <<checker, MaxToolCallsBeforeCommit, toolCalls, pc, pendingEdits,
                   violations, sleeps, lastCommand, lastCommandWasPolling>>
    /\ UNCHANGED <<registryVars, transcriptVars, worktreeCreated, runs>>

\* the code after the cleanup loop: the transcript is saved, parsed and
\* checked
RunnerFinish ==
    /\ checker = RunnerID
    /\ pc = "cleanup"
    /\ Len(Executed("cleanup")) = Len(call.s.CleanupCommands)
    /\ \E writeOK \in BOOLEAN, parseOK \in BOOLEAN, found \in CheckOutcomes :
          returned' =
              IF ~writeOK THEN ErrorResult("save transcript")
              ELSE IF ~parseOK THEN ErrorResult("parse transcript")
              ELSE [Error |-> Nil,
                    Passed |-> Passed(call.s, found),
                    ViolationCount |-> Cardinality(found)]
    /\ pc' = "returned"
    /\ UNCHANGED <<checker, MaxToolCallsBeforeCommit, toolCalls, pendingEdits, violations,
                   sleeps, lastCommand, lastCommandWasPolling>>
    /\ UNCHANGED <<registry, registryMu, goroutines, panicked, call>>
    /\ UNCHANGED <<transcriptVars, runVars>>

InitRunner ==
    /\ checker = RunnerID
    /\ MaxToolCallsBeforeCommit = 0
    /\ toolCalls = <<>>
    /\ pc = "runner"
    /\ pendingEdits = <<>>
    /\ violations = <<>>
    /\ sleeps = <<>>
    /\ lastCommand = <<>>
    /\ lastCommandWasPolling = FALSE
    /\ data = <<>>
    /\ t = Nil
    /\ err = Nil
    /\ RegistryUntouched
    /\ NoRuns

NextRunner == RunnerRun \/ RunnerSetup \/ RunnerAgent \/ RunnerCleanup \/ RunnerFinish

SpecRunner == InitRunner /\ [][NextRunner]_vars

(***************************************************************************)
(* The whole model.                                                        *)
(***************************************************************************)
Init ==
    \/ InitCae \/ InitBo \/ InitParse \/ InitCq \/ InitUa
    \/ InitCr \/ InitPw \/ InitNt \/ InitRuns \/ InitRun
    \/ InitEb \/ InitRunner
    \/ InitRegistry \/ InitGoroutines

Next ==
    \/ CaeStep \/ CaeFinish
    \/ BoStep \/ BoCapStep \/ BoFinish
    \/ ReadLine \/ ReadContentLine \/ ParseBytes
    \/ CqAddEvent \/ CqCheck
    \/ UaAddEvent \/ UaCheck
    \/ CrAddEvent \/ CrCheck
    \/ PwStep \/ PwFinish
    \/ NtStep \/ NtFinish
    \/ RunBegin \/ RunEnter \/ RunStep \/ RunReturn
    \/ Register \/ Clear
    \/ CallGetByID \/ CallGetAll \/ CallIDs
    \/ CallRunAll \/ CallRunByIDs
    \/ Go \/ GoLock
    \/ GoRegisterCheck \/ GoRegisterStore \/ GoRegisterUnwind \/ GoCrash
    \/ GoRecover
    \/ GoClear \/ GoRead
    \/ runCheck
    \/ EbReadLine \/ EbExtract
    \/ RunnerRun \/ RunnerSetup \/ RunnerAgent \/ RunnerCleanup \/ RunnerFinish

Spec == Init /\ [][Next]_vars

(***************************************************************************)
(* Reading the result of a commit-after-edit run.                          *)
(***************************************************************************)
IsEditCall(tc) == tc.Name \in editTools

IsCommitCall(tc) ==
    tc.Name = "Bash" /\ tc.Input.ok /\ gitCommitCmdPattern(tc.Input.command)

\* Indices of t.ToolCalls
Idx == 0..(Len(toolCalls) - 1)

\* A violation references a tool call by its id and its event's UUID.
References(v, tc) == v.ToolCallID = tc.ID /\ v.EventUUID = tc.EventUUID

ViolationsOf(tc) == {n \in 1..Len(violations) : References(violations[n], tc)}

CaeDone == checker = CommitAfterEditID /\ pc = "done"

NoCommitIn(calls, from, to) ==
    \A c \in from..to : ~IsCommitCall(calls[c + 1])

\* No two tool calls of the transcript have the same id.
DistinctIDs ==
    \A k \in Idx : \A j \in Idx : At(k).ID = At(j).ID => k = j

\* C1 (as claimed, on transcripts whose tool-call ids are pairwise
\* distinct): in the result of one Check call every edit tool call is
\* referenced by at most one violation.
C1_EditReportedAtMostOnce ==
    (CaeDone /\ DistinctIDs) =>
        \A k \in Idx : IsEditCall(At(k)) => Cardinality(ViolationsOf(At(k))) <= 1

\* C2 (as claimed, on transcripts whose tool-call ids are pairwise
\* distinct): an edit at index k is referenced by a Warning whenever some
\* later index i has i - k > window with no commit at k+1..i, whatever sits
\* at i and whatever follows i.
C2_OutlivingEditIsWarned ==
    (CaeDone /\ DistinctIDs) =>
        \A k \in Idx : \A i \in Idx :
            ( /\ IsEditCall(At(k))
              /\ i - k > maxCalls
              /\ NoCommitIn(toolCalls, k + 1, i) )
            => \E n \in ViolationsOf(At(k)) : violations[n].Severity = SeverityWarning

\* Every edit is followed by a commit at most maxCalls tool calls later.
EveryEditCommittedInWindow ==
    \A k \in Idx :
        IsEditCall(At(k)) =>
            \E j \in Idx : j > k /\ j - k <= maxCalls /\ IsCommitCall(At(j))

\* C3: a transcript in which every edit is followed by a commit within the
\* window yields zero violations.
C3_CommittedInWindowIsClean ==
    (CaeDone /\ EveryEditCommittedInWindow) => violations = <<>>

C3_Witness ==
    /\ CaeDone
    /\ EveryEditCommittedInWindow
    /\ Cardinality({k \in Idx : IsEditCall(At(k))}) >= 2
    /\ Cardinality({k \in Idx : IsCommitCall(At(k))}) = 1
    /\ violations = <<>>

\* Exactly one edit, at index k, no commit after it, and more than maxCalls
\* later tool calls (none of them an edit or a commit).
LoneStaleEdit(k) ==
    /\ k \in Idx
    /\ {j \in Idx : IsEditCall(At(j))} = {k}
    /\ NoCommitIn(toolCalls, k + 1, Len(toolCalls) - 1)
    /\ (Len(toolCalls) - 1) - k > maxCalls

\* C4: one edit, never committed, followed by more than window other tool
\* calls, yields exactly one violation: a Warning that references the edit.
C4_LoneStaleEditOneWarning ==
    CaeDone =>
        \A k \in Idx :
            LoneStaleEdit(k) =>
                /\ Len(violations) = 1
                /\ References(violations[1], At(k))
                /\ violations[1].Severity = SeverityWarning

C4_Witness ==
    /\ CaeDone
    /\ \E k \in Idx : LoneStaleEdit(k) /\ At(Len(toolCalls) - 1).Name = "Read"
    /\ Len(violations) = 1
    /\ violations[1].Message =
           "File edit not followed by git commit within reasonable window"

\* C5: a violation produced at some point of the scan (a window Warning in
\* a loop iteration, or a terminal Warning after the loop) never references
\* an edit that has a commit between it and that point.
C5_CommitClearsAllPending ==
    [][ checker = CommitAfterEditID =>
          \A n \in (Len(violations) + 1)..Len(violations') :
              \A k \in 0..(Len(toolCalls') - 1) :
                  ( /\ IsEditCall(toolCalls'[k + 1])
                    /\ References(violations'[n], toolCalls'[k + 1]) )
                  => NoCommitIn(toolCalls', k + 1, Len(toolCalls') - 1) ]_vars

C5_Witness ==
    /\ CaeDone
    /\ violations # <<>>
    /\ \E k \in Idx : \E c \in Idx : \E m \in Idx :
          /\ k < c /\ c < m
          /\ IsEditCall(At(k)) /\ IsCommitCall(At(c)) /\ IsEditCall(At(m))
          /\ ViolationsOf(At(k)) = {}
          /\ ViolationsOf(At(m)) # {}

\* C6 (as claimed): every edit with no commit anywhere after it is
\* referenced by at least one violation of the result.
C6_UncommittedEditIsReported ==
    CaeDone =>
        \A k \in Idx :
            ( IsEditCall(At(k)) /\ NoCommitIn(toolCalls, k + 1, Len(toolCalls) - 1) )
            => ViolationsOf(At(k)) # {}

(***************************************************************************)
(* Reading the result of an exponential-backoff run.                       *)
(***************************************************************************)
BoDone == checker = ExponentialBackoffID /\ pc = "done"

\* A Bash call whose input decodes
IsDecodedBash(tc) == tc.Name = "Bash" /\ tc.Input.ok

\* A Bash command matching `sleep N`
IsSleepCall(tc) == IsDecodedBash(tc) /\ sleepPattern(tc.Input.command) # {}

SleepDuration(tc) == Atoi[FindStringSubmatch(tc.Input.command)]

\* A polling step: a Bash command (not empty, not a sleep) or BashOutput
IsPollCall(tc) ==
    \/ tc.Name = "BashOutput"
    \/ /\ IsDecodedBash(tc)
       /\ tc.Input.command # <<>>
       /\ sleepPattern(tc.Input.command) = {}

\* The transcript is poll, sleep, poll, sleep, ... with at least three
\* sleeps, all polls the same call and all sleeps of the same duration.
IsPollingLoop ==
    /\ Len(toolCalls) >= 6
    /\ \A k \in Idx :
          IF k % 2 = 0
          THEN /\ IsPollCall(At(k))
               /\ At(k).Name = At(0).Name
               /\ At(k).Input = At(0).Input
          ELSE /\ IsSleepCall(At(k))
               /\ SleepDuration(At(k)) = SleepDuration(At(1))

\* C7: a transcript that alternates the same polling command (or
\* BashOutput) with a sleep of the same duration at least three times yields
\* exactly one Warning, carrying the id and event UUID of the third sleep.
C7_PollingLoopOneWarning ==
    (BoDone /\ IsPollingLoop) =>
        /\ Len(violations) = 1
        /\ violations[1].Severity = SeverityWarning
        /\ violations[1].ToolCallID = At(5).ID
        /\ violations[1].EventUUID = At(5).EventUUID

C7_Witness ==
    /\ BoDone
    /\ IsPollingLoop
    /\ At(0).Name = "BashOutput"
    /\ Len(violations) = 1
    /\ violations[1].EventUUID = 5

SleepCalls == {k \in Idx : IsSleepCall(At(k))}

C9_DivergentSignaturesClean ==
    (BoDone /\ \E n \in 1..Len(sleeps) : sleeps[n].prevCmd # sleeps[1].prevCmd)
        => violations = <<>>

C9_Witness ==
    /\ BoDone
    /\ Len(sleeps) >= 3
    /\ \A n \in 1..Len(sleeps) : sleeps[n].duration = sleeps[1].duration
    /\ \E n \in 1..Len(sleeps) : sleeps[n].prevCmd # sleeps[1].prevCmd
    /\ violations = <<>>

\* The signature a call leaves behind: the marker for BashOutput, the
\* command of a decoded Bash call.
SignatureOf(tc) ==
    IF tc.Name = "BashOutput" THEN BashOutputMarker ELSE tc.Input.command

\* The index of the n-th captured sleep's tool call
SleepIndex(n) == sleeps[n].toolCall.EventUUID

\* The calls before index k that are commands and not sleeps
NonSleepCommandsBefore(k) ==
    {j \in 0..(k - 1) :
        \/ At(j).Name = "BashOutput"
        \/ (IsDecodedBash(At(j)) /\ ~IsSleepCall(At(j)))}

\* The calls before index k that are commands of any kind
CommandsBefore(k) ==
    {j \in 0..(k - 1) : At(j).Name = "BashOutput" \/ IsDecodedBash(At(j))}

Latest(S) == CHOOSE j \in S : \A m \in S : m <= j

\* C10 (as claimed): every captured sleep is paired with the signature of
\* the most recent preceding command that is not itself a sleep.
C10_PairedWithLastNonSleep ==
    \A n \in 1..Len(sleeps) :
        NonSleepCommandsBefore(SleepIndex(n)) # {} =>
            sleeps[n].prevCmd =
                SignatureOf(At(Latest(NonSleepCommandsBefore(SleepIndex(n)))))

\* C10 (amended): every captured sleep is paired with the signature of the
\* most recent preceding command, a sleep or not (the command of a decoded
\* Bash call, the marker for BashOutput); when there is none, or that
\* command is empty, it is paired with its own command.
C10_PairedWithLastCommand ==
    \A n \in 1..Len(sleeps) :
        LET k == SleepIndex(n)
            own == At(k).Input.command
        IN sleeps[n].prevCmd =
               IF CommandsBefore(k) = {} THEN own
               ELSE LET sig == SignatureOf(At(Latest(CommandsBefore(k))))
                    IN IF sig = <<>> THEN own ELSE sig

C10_Witness ==
    /\ checker = ExponentialBackoffID
    /\ Len(sleeps) >= 2
    /\ Len(toolCalls) >= 3
    /\ IsPollCall(At(0))
    /\ IsSleepCall(At(1))
    /\ IsSleepCall(At(2))
    /\ sleeps[2].prevCmd = At(1).Input.command
    /\ sleeps[2].prevCmd # sleeps[1].prevCmd

(***************************************************************************)
(* Exponential-backoff: loops that qualify (C11, C12).                     *)
(***************************************************************************)
\* At least three captured sleeps, all with the same signature
QualifyingLoop ==
    /\ Len(sleeps) >= 3
    /\ \A n \in 1..Len(sleeps) : \A m \in 1..Len(sleeps) :
          sleeps[n].prevCmd = sleeps[m].prevCmd

AllDurationsEqual ==
    \A n \in 1..Len(sleeps) : \A m \in 1..Len(sleeps) :
        sleeps[n].duration = sleeps[m].duration

\* curr < prev and not both at or above the cap, for the pair (n-1, n)
BadPair(n) ==
    /\ sleeps[n].duration < sleeps[n - 1].duration
    /\ ~(sleeps[n - 1].duration >= 60 /\ sleeps[n].duration >= 60)

BadPairs == {n \in 2..Len(sleeps) : BadPair(n)}

\* C11: in a qualifying loop whose durations are not all equal, exactly one
\* Warning is emitted iff some consecutive pair decreases without both
\* values being at the cap; it references curr of the first such pair;
\* otherwise there is no violation.
C11_FirstDecreaseIsWarned ==
    (BoDone /\ QualifyingLoop /\ ~AllDurationsEqual) =>
        IF BadPairs = {}
        THEN violations = <<>>
        ELSE /\ Len(violations) = 1
             /\ violations[1].Severity = SeverityWarning
             /\ \E n \in BadPairs :
                   /\ \A m \in BadPairs : n <= m
                   /\ References(violations[1], sleeps[n].toolCall)

C11_Witness ==
    /\ BoDone
    /\ QualifyingLoop
    /\ ~AllDurationsEqual
    /\ Len(violations) = 1
    /\ \E n \in 2..Len(sleeps) :
          sleeps[n - 1].duration >= 60 /\ sleeps[n].duration >= 60
          /\ sleeps[n].duration < sleeps[n - 1].duration
    /\ References(violations[1], sleeps[3].toolCall)

\* C12 (as claimed): a qualifying loop in which every sleep duration is at
\* or above the 60-second cap yields zero violations.
C12_AtCapIsClean ==
    (BoDone /\ QualifyingLoop /\ (\A n \in 1..Len(sleeps) : sleeps[n].duration >= 60))
        => violations = <<>>
AllAtCap == \A n \in 1..Len(sleeps) : sleeps[n].duration >= 60

\* C12 (amended): a qualifying loop in which every sleep duration is at or
\* above the cap yields zero violations when the durations are not all
\* equal, and exactly the one constant-sleep Warning on the third sleep
\* when they are all equal.
C12_AtCapCleanUnlessConstant ==
    (BoDone /\ QualifyingLoop /\ AllAtCap) =>
        IF AllDurationsEqual
        THEN /\ Len(violations) = 1
             /\ violations[1].Severity = SeverityWarning
             /\ References(violations[1], sleeps[3].toolCall)
        ELSE violations = <<>>

C12_Witness ==
    /\ BoDone
    /\ QualifyingLoop
    /\ AllAtCap
    /\ ~AllDurationsEqual
    /\ \E n \in 2..Len(sleeps) : sleeps[n].duration < sleeps[n - 1].duration
    /\ violations = <<>>

(***************************************************************************)
(* Reading the result of a parse.                                          *)
(***************************************************************************)
ParseDone == checker = ParseBytesID /\ pc = "done"

ParseOK == ParseDone /\ err = Nil

IsEventLine(n, type) == data[n].kind = "json" /\ data[n].type = type

LinesOfType(type) == {n \in 1..Len(data) : IsEventLine(n, type)}

\* C16: after a successful parse the session fields are those of the last
\* system event and the result fields those of the last result event of
\* the input; events of other kinds leave them alone, so that without such
\* an event the fields keep their zero values.
C16_LastSystemAndResultWin ==
    ParseOK =>
        /\ IF LinesOfType("system") = {}
           THEN t.SessionID = "" /\ t.Model = "" /\ t.CWD = "" /\ t.Tools = <<>>
           ELSE LET last == data[Latest(LinesOfType("system"))].body
                IN /\ t.SessionID = last.session_id
                   /\ t.Model = last.model
                   /\ t.CWD = last.cwd
                   /\ t.Tools = last.tools
        /\ IF LinesOfType("result") = {}
           THEN t.NumTurns = 0 /\ t.IsError = FALSE /\ t.TotalCostUSD = 0 /\ t.Result = ""
           ELSE LET last == data[Latest(LinesOfType("result"))].body
                IN /\ t.NumTurns = last.num_turns
                   /\ t.IsError = last.is_error
                   /\ t.TotalCostUSD = last.total_cost_usd
                   /\ t.Result = last.result

C16_Witness ==
    /\ ParseOK
    /\ \E n \in LinesOfType("system") : \E m \in LinesOfType("system") :
          /\ n < m
          /\ data[n].body.session_id # data[m].body.session_id
          /\ t.SessionID = data[m].body.session_id
          /\ \E k \in LinesOfType("assistant") : m < k
    /\ LinesOfType("result") # {}

\* Positions <<line, block>> of the tool_use blocks of assistant events
ToolUsePositions ==
    UNION {{<<n, b>> : b \in {c \in 1..Len(data[n].body.content) :
                                data[n].body.content[c].Type = "tool_use"}} :
           n \in LinesOfType("assistant")}

Before(p, q) == p[1] < q[1] \/ (p[1] = q[1] /\ p[2] < q[2])

\* 1-based rank of a tool_use block in order of appearance
Rank(p) == 1 + Cardinality({q \in ToolUsePositions : Before(q, p)})

\* C17: after a successful parse ToolCalls has one entry per tool_use block
\* of the assistant events, in order of appearance, each with the id and
\* name of its block and the UUID of its assistant event; other events
\* contribute nothing.
C17_ToolCallsAreToolUseBlocks ==
    ParseOK =>
        /\ Len(t.ToolCalls) = Cardinality(ToolUsePositions)
        /\ \A p \in ToolUsePositions :
              /\ t.ToolCalls[Rank(p)].ID = data[p[1]].body.content[p[2]].ID
              /\ t.ToolCalls[Rank(p)].Name = data[p[1]].body.content[p[2]].Name
              /\ t.ToolCalls[Rank(p)].EventUUID = data[p[1]].uuid

C17_Witness ==
    /\ ParseOK
    /\ Len(t.ToolCalls) = 3
    /\ t.ToolCalls[1].EventUUID # t.ToolCalls[3].EventUUID
    /\ t.ToolCalls[1].EventUUID = t.ToolCalls[2].EventUUID
    /\ \E n \in 1..Len(data) : data[n].kind = "json" /\ data[n].type = "progress"
    /\ LinesOfType("user") # {}
\* Positions <<line, block>> of the tool_result blocks of user events
\* that carry the id
ToolResultPositions(id) ==
    UNION {{<<n, b>> : b \in {c \in 1..Len(data[n].body.content) :
                                /\ data[n].body.content[c].Type = "tool_result"
                                /\ data[n].body.content[c].ToolUseID = id}} :
           n \in LinesOfType("user")}

ResultAt(r) == data[r[1]].body.content[r[2]]

CallAt(p) == t.ToolCalls[Rank(p)]

Uncorrelated(tc) == tc.Result = <<>> /\ tc.IsError = FALSE

TakenFrom(tc, r) ==
    /\ tc.Result = extractContentString(ResultAt(r).Content)
    /\ tc.IsError = ResultAt(r).IsError

\* C19 (as claimed): a ToolCall's Result and IsError come from a tool
\* result that appears later in the input than the invocation and carries
\* its id; without a later result they are empty and false.
C19_ResultFromLaterLine ==
    ParseOK =>
        \A p \in ToolUsePositions :
            LET later == {r \in ToolResultPositions(CallAt(p).ID) : r[1] > p[1]}
            IN IF later = {}
               THEN Uncorrelated(CallAt(p))
               ELSE \E r \in later : TakenFrom(CallAt(p), r)

\* C19 (amended): a ToolCall's Result and IsError come from the last tool
\* result of the whole input that carries its non-empty id, whether that
\* result stands before or after the invocation; they are empty and false
\* when the id is empty or no tool result of the input carries it.
C19_ResultFromLastOfInput ==
    ParseOK =>
        \A p \in ToolUsePositions :
            LET all == ToolResultPositions(CallAt(p).ID)
            IN IF all = {} \/ CallAt(p).ID = ""
               THEN Uncorrelated(CallAt(p))
               ELSE \E r \in all :
                       /\ \A q \in all : q = r \/ Before(q, r)
                       /\ TakenFrom(CallAt(p), r)

C19_Witness ==
    /\ ParseOK
    /\ \E p \in ToolUsePositions :
          /\ ~Uncorrelated(CallAt(p))
          /\ \A r \in ToolResultPositions(CallAt(p).ID) : r[1] < p[1]
          /\ Cardinality({r[1] : r \in ToolResultPositions(CallAt(p).ID)}) = 2

\* Lines that are no JSON object or do not decode as the event of their type
IsKnownType(type) == type \in {"system", "assistant", "user", "result"}

InvalidLines ==
    {n \in 1..Len(data) :
        /\ data[n].kind # "blank"
        /\ \/ data[n].kind # "json"
           \/ IsKnownType(data[n].type) /\ ~data[n].shape}

Earliest(S) == CHOOSE j \in S : \A m \in S : j <= m

\* C20: input without a non-empty line, or with a line that is not valid
\* JSON for its event type, makes ParseBytes return an error and no
\* Transcript; for an invalid line the error carries that line's 1-based
\* line number in the input.
C20_FailureCarriesInputLine ==
    ParseDone =>
        IF \A n \in 1..Len(data) : data[n].kind = "blank"
        THEN err # Nil /\ t = Nil
        ELSE IF InvalidLines = {}
        THEN err = Nil /\ t # Nil
        ELSE /\ err # Nil
             /\ t = Nil
             /\ err.line = Earliest(InvalidLines)
\* The non-empty text blocks of an array, in order
TextItems(items) == SelectSeq(items, LAMBDA b : b.Type = "text" /\ b.Text # <<>>)

\* texts k.. of the blocks, separated by single newlines
RECURSIVE JoinedFrom(_, _)
JoinedFrom(blocks, k) ==
    IF k > Len(blocks) THEN <<>>
    ELSE IF k = Len(blocks) THEN blocks[k].Text
    ELSE blocks[k].Text \o <<"\n">> \o JoinedFrom(blocks, k + 1)

IsArrayOfBlocks(c) ==
    c.kind = "array" /\ \A k \in 1..Len(c.items) : c.items[k].ek = "object"

LastResult(id) ==
    CHOOSE r \in ToolResultPositions(id) :
        \A q \in ToolResultPositions(id) : q = r \/ Before(q, r)

CqDone == checker = ClarifyingQuestionsID /\ pc = "done"

IsAssistant(j) == t.Events[j].GoType = "AssistantEvent"

MessageText(j) == TextOf(t.Events[j].Message.Content, 1)

UsesTool(j, names) ==
    \E k \in 1..Len(t.Events[j].Message.Content) :
        /\ t.Events[j].Message.Content[k].Type = "tool_use"
        /\ t.Events[j].Message.Content[k].Name \in names

IsFlaggedTask(i) ==
    t.Events[i].GoType = "UserEvent" /\ complexTaskPatterns(MessageText(i))

FlaggedTasks == {i \in 1..Len(t.Events) : IsFlaggedTask(i)}

AsksQuestion(j) ==
    IsAssistant(j) /\ (questionPatterns(MessageText(j)) \/ UsesTool(j, {"AskUserQuestion"}))

StartsImplementing(j) ==
    /\ IsAssistant(j)
    /\ \/ implementationPatterns(MessageText(j))
       \/ UsesTool(j, {"Write", "Edit", "NotebookEdit"})

\* the assistant messages after event i that ask or implement
Decisive(i) ==
    {j \in (i + 1)..Len(t.Events) : AsksQuestion(j) \/ StartsImplementing(j)}

ImplementsUnasked(i) ==
    /\ Decisive(i) # {}
    /\ StartsImplementing(Earliest(Decisive(i)))
    /\ ~AsksQuestion(Earliest(Decisive(i)))

WarnedTasks == {i \in FlaggedTasks : ImplementsUnasked(i)}

\* C13: a flagged task gets exactly one Warning iff the first assistant
\* message after it that asks a question or starts implementing is one
\* that implements and does not itself ask; the Warnings come in task
\* order, each naming that message and its task; no other task gets one.
C13_WarnedIffImplementsUnasked ==
    CqDone =>
        /\ Len(violations) = Cardinality(WarnedTasks)
        /\ \A i \in WarnedTasks :
              LET v == violations[1 + Cardinality({k \in WarnedTasks : k < i})]
              IN /\ v.Severity = SeverityWarning
                 /\ v.CheckerID = ClarifyingQuestionsID
                 /\ v.EventUUID = t.Events[Earliest(Decisive(i))].UUID
                 /\ v.Context.task = MessageText(i)

C13_Witness ==
    /\ CqDone
    /\ Len(violations) = 1
    /\ WarnedTasks # {}
    /\ \E i \in FlaggedTasks \ WarnedTasks :
          /\ Decisive(i) # {}
          /\ StartsImplementing(Earliest(Decisive(i)))
          /\ AsksQuestion(Earliest(Decisive(i)))

\* the transcript of task i alone: its user message and the assistant
\* messages after it
AloneTranscript(i) ==
    [t EXCEPT !.Events =
        <<t.Events[i]>>
        \o SelectSeq(SubSeq(t.Events, i + 1, Len(t.Events)),
                     LAMBDA ev : ev.GoType = "AssistantEvent")]

\* what the tasks from event i on give when each is checked alone
RECURSIVE EachAlone(_)
EachAlone(i) ==
    IF i > Len(t.Events) THEN <<>>
    ELSE IF IsFlaggedTask(i)
         THEN ClarifyingQuestionsCheck(AloneTranscript(i)) \o EachAlone(i + 1)
         ELSE EachAlone(i + 1)

\* C14: tasks are evaluated independently: the violations are those each
\* flagged task gives on a transcript of its own user message and the
\* assistant messages after it, so nothing before a task, a question
\* included, changes its verdict; there are never more violations than
\* flagged tasks.
C14_TasksEvaluatedAlone ==
    CqDone =>
        /\ violations = EachAlone(1)
        /\ Len(violations) <= Cardinality(FlaggedTasks)

C14_Witness ==
    /\ CqDone
    /\ \E i \in FlaggedTasks : \E k \in WarnedTasks : \E j \in (i + 1)..(k - 1) :
          AsksQuestion(j) /\ ~StartsImplementing(j)
    /\ Len(violations) = 1
    /\ Cardinality(FlaggedTasks) = 2

(***************************************************************************)
(* Reading the result of a user-approval run.                              *)
(***************************************************************************)
UaDone == checker = UserApprovalID /\ pc = "done"

IsInProgressCall(tc) ==
    tc.Name = "Bash" /\ tc.Input.ok /\ bdInProgressPattern(tc.Input.command)

IdsUniqueInMessages ==
    \A j \in 1..Len(t.Events) :
        IsAssistant(j) =>
            \A a \in 1..Len(t.Events[j].Message.Content) :
                \A b \in 1..Len(t.Events[j].Message.Content) :
                    (/\ a # b
                     /\ t.Events[j].Message.Content[a].Type = "tool_use"
                     /\ t.Events[j].Message.Content[b].Type = "tool_use")
                    => t.Events[j].Message.Content[a].ID # t.Events[j].Message.Content[b].ID

\* the assistant message that contains the invocation is the event whose
\* UUID the call carries
ApprovalAskedBefore(tc) ==
    \E j \in 1..Len(t.Events) :
        /\ t.Events[j].UUID < tc.EventUUID
        /\ IsAssistant(j)
        /\ approvalPatterns(MessageText(j))

\* C15: with invocation ids unique within each assistant message, a Bash
\* call that marks an issue in_progress gets a Warning referencing it iff
\* no assistant message strictly earlier than the message containing the
\* invocation has approval-request text.
C15_WarnedIffNoEarlierApproval ==
    (UaDone /\ IdsUniqueInMessages) =>
        \A n \in 1..Len(t.ToolCalls) :
            IsInProgressCall(t.ToolCalls[n]) =>
                ((\E k \in 1..Len(violations) :
                      /\ violations[k].Severity = SeverityWarning
                      /\ References(violations[k], t.ToolCalls[n]))
                 <=> ~ApprovalAskedBefore(t.ToolCalls[n]))

(***************************************************************************)
(* Reading the result of a parallel-worktree run.                          *)
(***************************************************************************)
PwDone == checker = ParallelWorktreeID /\ pc = "done" /\ runs = <<>>

\* a Task call whose sub-agent type is known and not exempt
IsDelegation(tc) ==
    /\ tc.Name = "Task"
    /\ tc.Input.ok
    /\ tc.Input.subagent_type \notin {"Explore", "Plan", "claude-code-guide",
                                      "statusline-setup"}

IsWorktreeCommand(tc) ==
    /\ tc.Name = "Bash"
    /\ tc.Input.ok
    /\ \E j \in 1..(Len(tc.Input.command) - 2) :
          /\ tc.Input.command[j] = "git"
          /\ tc.Input.command[j + 1] = "worktree"
          /\ tc.Input.command[j + 2] = "add"

WorktreeBefore(k) == \E j \in 0..(k - 1) : IsWorktreeCommand(At(j))

\* the violations that reference the tool call at index k
WarningsFor(k) ==
    { n \in 1..Len(violations) :
        violations[n].EventUUID = k /\ violations[n].ToolCallID = At(k).ID }

\* C29: in the result of a parallel-worktree Check every violation is a
\* Warning, a Task call with a non-exempt sub-agent type has exactly one
\* if no Bash command with git worktree add comes before it and none
\* otherwise, whatever follows it, and no other tool call has one.
C29_TaskWarnedIffNoEarlierWorktree ==
    PwDone =>
        /\ \A n \in 1..Len(violations) : violations[n].Severity = SeverityWarning
        /\ \A k \in 0..(Len(toolCalls) - 1) :
              Cardinality(WarningsFor(k)) =
                  IF IsDelegation(At(k)) /\ ~WorktreeBefore(k) THEN 1 ELSE 0
        /\ Len(violations) =
              Cardinality({ k \in 0..(Len(toolCalls) - 1) :
                              IsDelegation(At(k)) /\ ~WorktreeBefore(k) })

C29_Witness ==
    /\ PwDone
    /\ \E k \in 0..(Len(toolCalls) - 1) :
          /\ IsDelegation(At(k)) /\ WarningsFor(k) # {}
          /\ \E j \in 0..(k - 1) : At(j).Name = "Task" /\ ~IsDelegation(At(j))
          /\ \E j \in (k + 1)..(Len(toolCalls) - 1) :
                /\ IsWorktreeCommand(At(j))
                /\ \E m \in (j + 1)..(Len(toolCalls) - 1) :
                      IsDelegation(At(m)) /\ WarningsFor(m) = {}

(***************************************************************************)
(* Reading the results of Check calls made one after the other.            *)
(***************************************************************************)
SameCall(i, j) == runs[i].checker = runs[j].checker /\ runs[i].t = runs[j].t

\* C26: two Check calls of one checker on one transcript return the same
\* violations in the same order, whatever calls were made before each of
\* them (the first call of a process has none before it).
C26_ChecksAreDeterministic ==
    \A i, j \in 1..Len(runs) : SameCall(i, j) => runs[i].violations = runs[j].violations

C26_Witness ==
    /\ Len(runs) = 3
    /\ SameCall(1, 3)
    /\ runs[1].checker = ParallelWorktreeID
    /\ runs[1].violations # <<>>
    /\ runs[2].checker = ParallelWorktreeID
    /\ runs[2].t # runs[1].t
    /\ runs[2].violations = <<>>
    /\ \E k \in 1..Len(runs[2].t.ToolCalls) :
          runs[2].t.ToolCalls[k].Name = "Bash"


(***************************************************************************)
(* Reading the result of a call on the registry.                           *)
(***************************************************************************)
Called(op) == call # Nil /\ call.op = op

RegisteredCheckers == { registry[id] : id \in DOMAIN registry }

Ascending(ids) == \A i, j \in 1..Len(ids) : i < j => StringLess(ids[i], ids[j])

\* The violations of the registered checkers with these ids, one checker
\* after the other.
RECURSIVE ViolationsOfCheckers(_)
ViolationsOfCheckers(ids) ==
    IF ids = <<>> THEN <<>>
    ELSE registry[Head(ids)].violations \o ViolationsOfCheckers(Tail(ids))

IsDuplicate(c) == ID(c) \in DOMAIN registry

\* C21: a Register of a checker whose id is already registered panics and
\* leaves the registry as it was, a Register of a new id does not panic,
\* and after the panic the process takes no further step, so no Check
\* runs.
C21_DuplicateRegisterAborts ==
    [][/\ panicked = Nil
       /\ call'.op = "Register" =>
             /\ IsDuplicate(call'.c) <=> panicked' # Nil
             /\ IsDuplicate(call'.c) => registry' = registry]_vars

C21_Witness ==
    /\ Called("Register")
    /\ panicked # Nil
    /\ registry[ID(call.c)] # call.c

\* C22: GetAll returns the registered checkers and IDs the registered ids,
\* each once, in ascending order of id.
C22_GetAllAndIDsSorted ==
    /\ Called("GetAll") =>
          /\ Len(returned) = Cardinality(DOMAIN registry)
          /\ { returned[k] : k \in 1..Len(returned) } = RegisteredCheckers
          /\ Ascending([k \in 1..Len(returned) |-> ID(returned[k])])
    /\ Called("IDs") =>
          /\ Len(returned) = Cardinality(DOMAIN registry)
          /\ { returned[k] : k \in 1..Len(returned) } = DOMAIN registry
          /\ Ascending(returned)

C22_Witness ==
    /\ Called("IDs")
    /\ Len(returned) = 3

\* C23: RunAll reports the registered ids in ascending order as
\* CheckersRun, and as Violations the violations of these checkers, in
\* that order, each checker's own order kept.
C23_RunAllConcatenatesInIDOrder ==
    Called("RunAll") =>
        /\ Len(returned.CheckersRun) = Cardinality(DOMAIN registry)
        /\ { returned.CheckersRun[k] : k \in 1..Len(returned.CheckersRun) }
               = DOMAIN registry
        /\ Ascending(returned.CheckersRun)
        /\ returned.Violations = ViolationsOfCheckers(returned.CheckersRun)

C23_Witness ==
    /\ Called("RunAll")
    /\ Len(returned.CheckersRun) = 3
    /\ Len(returned.Violations) = 4

Permutations(n) ==
    { p \in [1..n -> 1..n] : \A i, j \in 1..n : i # j => p[i] # p[j] }

\* C24 (as claimed): RunByIDs runs the checkers it selects in ascending
\* order of id, and returns the same CheckersRun and Violations for every
\* permutation of its ids argument.
C24_RunByIDsSortsSelection ==
    Called("RunByIDs") =>
        /\ \A i, j \in 1..Len(returned.CheckersRun) :
              i < j => ~StringLess(returned.CheckersRun[j], returned.CheckersRun[i])
        /\ \A p \in Permutations(Len(call.ids)) :
              RunByIDs(registry, t, [k \in 1..Len(call.ids) |-> call.ids[p[k]]])
                  = returned

IsRegisteredID(id) == id \in DOMAIN registry

\* C25: RunByIDs does not fail; CheckersRun is its ids argument without
\* the ids that are not registered, and Violations the violations of the
\* checkers so named; a registered checker that is not named does not run.
C25_RunByIDsSkipsUnknown ==
    Called("RunByIDs") =>
        /\ panicked = Nil
        /\ returned.CheckersRun = SelectSeq(call.ids, IsRegisteredID)
        /\ returned.Violations = ViolationsOfCheckers(returned.CheckersRun)

C25_Witness ==
    /\ Called("RunByIDs")
    /\ \E k \in 1..Len(call.ids) : ~IsRegisteredID(call.ids[k])
    /\ returned.CheckersRun # <<>>
    /\ \E id \in DOMAIN registry : \A k \in 1..Len(call.ids) : call.ids[k] # id

(***************************************************************************)
(* Reading the state of concurrent calls on the registry.                  *)
(***************************************************************************)
IsWriter(g) == goroutines[g].call.op \in {"Register", "Clear"}

\* between taking registryMu and the deferred release
InsideLock(g) == goroutines[g].pc \in {"locked", "store", "panicking"}

Writing == { g \in DOMAIN goroutines : IsWriter(g) /\ InsideLock(g) }

Reading == { g \in DOMAIN goroutines : ~IsWriter(g) /\ InsideLock(g) }

Registering(id) ==
    { g \in DOMAIN goroutines :
        goroutines[g].call.op = "Register" /\ ID(goroutines[g].call.c) = id }

\* Register calls that passed the check and store or have stored
Succeeding(id) == { g \in Registering(id) : goroutines[g].pc \in {"store", "done"} }

Panicking(id) ==
    { g \in Registering(id) : goroutines[g].pc \in {"panicking", "unwound", "crashed"} }

ClearDone == \E g \in DOMAIN goroutines :
                 goroutines[g].call.op = "Clear" /\ goroutines[g].pc = "done"

WritersExcludeAll == Cardinality(Writing) <= 1 /\ (Writing # {} => Reading = {})

\* C27 (as claimed): a goroutine inside Register or Clear excludes every
\* other goroutine from the registry; as long as no Clear has emptied the
\* registry every checker a returned Register stored is registered; and
\* among the Register calls with one id that got past the check exactly
\* one succeeds and the others panic, whatever else runs concurrently.
C27_RegistryCallsSerialized ==
    /\ WritersExcludeAll
    /\ ~ClearDone =>
          \A g \in DOMAIN goroutines :
              (goroutines[g].call.op = "Register" /\ goroutines[g].pc = "done")
                  => GetByID(registry, ID(goroutines[g].call.c)) = goroutines[g].call.c
    /\ \A id \in CheckerIDs :
          /\ Cardinality(Succeeding(id)) <= 1
          /\ Panicking(id) # {} => Cardinality(Succeeding(id)) = 1

\* C27 (amended): the same, the statement about Register calls with one id
\* being made as long as no Clear has emptied the registry; after a Clear
\* a second Register with the id succeeds as well.
C27_SerializedUnlessCleared ==
    /\ WritersExcludeAll
    /\ ~ClearDone =>
          /\ \A g \in DOMAIN goroutines :
                (goroutines[g].call.op = "Register" /\ goroutines[g].pc = "done")
                    => GetByID(registry, ID(goroutines[g].call.c)) = goroutines[g].call.c
          /\ \A id \in CheckerIDs :
                /\ Cardinality(Succeeding(id)) <= 1
                /\ Panicking(id) # {} => Cardinality(Succeeding(id)) = 1

C27_Witness ==
    /\ ~ClearDone
    /\ panicked # Nil
    /\ \E g, h \in DOMAIN goroutines :
          /\ goroutines[g].call = GoRegister(CheckerB2)
          /\ goroutines[g].pc = "done"
          /\ goroutines[h].call = GoRegister(CheckerB)
          /\ goroutines[h].pc = "crashed"
    /\ \E g \in DOMAIN goroutines :
          /\ goroutines[g].call.op = "GetAll"
          /\ goroutines[g].pc = "done"
          /\ goroutines[g].ret = <<CheckerB2>>

(***************************************************************************)
(* Reading the exit code of runCheck.                                      *)
(***************************************************************************)
InvalidArguments(args) ==
    \/ ~args.flagsOK
    \/ ~args.path
    \/ args.format \notin {"text", "json"}
    \/ args.failOn \notin {"error", "warning", "info"}

ParseFailed(args) == args.flagsOK /\ args.path /\ args.file.err # Nil

\* Info < Warning < Error
Threshold(failOn) ==
    CASE failOn = "error" -> SeverityError
      [] failOn = "warning" -> SeverityWarning
      [] failOn = "info" -> SeverityInfo

AtOrAboveThreshold(args, res) ==
    \E k \in 1..Len(res.Violations) :
        res.Violations[k].Severity >= Threshold(args.failOn)

\* C28 (as claimed): runCheck exits with 2 exactly when the arguments, the
\* format or the fail-on value are invalid or the transcript does not
\* parse; otherwise with 1 exactly when a violation of the reported
\* Result has a severity at or above the fail-on threshold; otherwise 0.
C28_ExitCode ==
    Called("runCheck") =>
        IF InvalidArguments(call.args) \/ ParseFailed(call.args)
        THEN returned.exit = exitError
        ELSE IF AtOrAboveThreshold(call.args, returned.result)
             THEN returned.exit = exitViolations
             ELSE returned.exit = exitOK

WriteFailed(args) == args.format = "json" /\ args.writeFails

\* C28 (amended): runCheck also exits with 2 when writing the JSON report
\* fails; the rest as claimed.
C28_ExitCodeWriteError ==
    Called("runCheck") =>
        IF InvalidArguments(call.args) \/ ParseFailed(call.args)
        THEN returned.exit = exitError
        ELSE IF WriteFailed(call.args)
             THEN returned.exit = exitError
             ELSE IF AtOrAboveThreshold(call.args, returned.result)
                  THEN returned.exit = exitViolations
                  ELSE returned.exit = exitOK

C28_Witness ==
    /\ Called("runCheck")
    /\ call.args.failOn = "warning"
    /\ call.args.format = "json"
    /\ returned.exit = exitViolations
    /\ Summary(returned.result).errors = 0
    /\ Summary(returned.result).infos > 0

(***************************************************************************)
(* Reading the result of a context-report run.                             *)
(***************************************************************************)
CrDone == checker = ContextReportID /\ pc = "done"

AssistantPositions == { k \in 1..Len(t.Events) : t.Events[k].GoType = "AssistantEvent" }

FinalAssistant == CHOOSE k \in AssistantPositions : \A j \in AssistantPositions : j <= k

\* the non-empty text blocks of the message of event k
TextBlocksOf(k) ==
    { n \in 1..Len(t.Events[k].Message.Content) :
        /\ t.Events[k].Message.Content[n].Type = "text"
        /\ t.Events[k].Message.Content[n].Text # <<>> }

HasReport(text) ==
    \E k \in 1..(Len(text) - 2) :
        text[k] = "Context:" /\ text[k + 1] \in {"15%", "25%"} /\ text[k + 2] = "used"

\* the message of event k reports the context usage in one of its texts
MessageReports(k) ==
    \E n \in TextBlocksOf(k) : HasReport(t.Events[k].Message.Content[n].Text)

\* C30 (as claimed): context-report looks at the final assistant message
\* only: no violation if there is none, if it has no text, or if its text
\* has a context-usage report, whatever the earlier messages are;
\* otherwise exactly one Warning.
C30_OnlyFinalMessageCounts ==
    CrDone =>
        IF AssistantPositions = {} THEN violations = <<>>
        ELSE IF TextBlocksOf(FinalAssistant) = {} \/ MessageReports(FinalAssistant)
             THEN violations = <<>>
             ELSE /\ Len(violations) = 1
                  /\ violations[1].Severity = SeverityWarning

(***************************************************************************)
(* Tool calls whose input does not decode.                                 *)
(***************************************************************************)
Undecodable(tc) == tc.Name \in {"Bash", "Task"} /\ ~tc.Input.ok

\* the step scans one more tool call
ScansCall == Len(toolCalls') = Len(toolCalls) + 1

ScannedCall == toolCalls'[Len(toolCalls')]

WorkingState ==
    <<pendingEdits, worktreeCreated, sleeps, lastCommand, lastCommandWasPolling>>

NoViolationForUndecodable ==
    \A n \in 1..Len(violations) :
        \A k \in 1..Len(toolCalls) :
            Undecodable(toolCalls[k]) =>
                /\ violations[n].EventUUID # toolCalls[k].EventUUID
                /\ violations[n].ToolCallID # toolCalls[k].ID

\* C31: a Bash or Task call whose input does not decode never fails the
\* Check (the scan goes on), gets no violation attributed to it, and
\* leaves the pending edits, the worktree flag, the captured sleeps, the
\* last-command signature and the violations as they were.
C31_DecodeFailureIsNoOpinion ==
    /\ []NoViolationForUndecodable
    /\ [][ScansCall /\ Undecodable(ScannedCall) =>
              /\ UNCHANGED <<WorkingState, violations>>
              /\ pc' = "scan"
              /\ err' = Nil]_vars

\* parallel-worktree has returned one Warning, for the decodable Task call
\* that follows an undecodable one, no worktree having been added
C31_Witness ==
    /\ checker = ParallelWorktreeID
    /\ pc = "done"
    /\ Len(toolCalls) = 2
    /\ Undecodable(toolCalls[1]) /\ toolCalls[1].Name = "Task"
    /\ toolCalls[2].Name = "Task" /\ ~Undecodable(toolCalls[2])
    /\ Len(violations) = 1
    /\ violations[1].EventUUID = toolCalls[2].EventUUID

(***************************************************************************)
(* Exponential-backoff: sleeps embedded in a compound command (C35).       *)
(***************************************************************************)
\* `sleep N` inside a longer command, as in make && sleep 10
IsEmbeddedSleep(tc) == IsSleepCall(tc) /\ tc.Input.command[1] # "sleep"

\* the transcript ends with the compound command of call k three times
\* over, and no call before them has a sleep
EndsWithCompoundLoop(k) ==
    /\ k + 2 = Len(toolCalls) - 1
    /\ IsEmbeddedSleep(At(k))
    /\ At(k + 1).Input = At(k).Input /\ At(k + 1).Name = "Bash"
    /\ At(k + 2).Input = At(k).Input /\ At(k + 2).Name = "Bash"
    /\ \A j \in 0..(k - 1) : ~IsSleepCall(At(j))

\* C35 (as claimed): the signature recorded for a sleep embedded in a
\* compound command is that compound command, so the same compound command
\* three times over with one N is reported whatever commands without a
\* sleep come before the loop.
C35_EmbeddedSleepOwnSignature ==
    /\ \A n \in 1..Len(sleeps) :
          IsEmbeddedSleep(sleeps[n].toolCall) =>
              sleeps[n].prevCmd = sleeps[n].toolCall.Input.command
    /\ BoDone =>
          \A k \in Idx :
              EndsWithCompoundLoop(k) =>
                  /\ Len(violations) = 1
                  /\ violations[1].EventUUID = At(k + 2).EventUUID

(***************************************************************************)
(* Registry: a duplicate Register whose panic is recovered (C36).          *)
(***************************************************************************)
HoldsLock(g) == g \in registryMu.writer \cup registryMu.readers

\* goroutine g is inside a Register that panics or is about to
FailingRegister(g) ==
    /\ goroutines[g].call.op = "Register"
    /\ \/ goroutines[g].pc = "panicking"
       \/ /\ goroutines[g].pc = "locked"
          /\ Exists(registry, ID(goroutines[g].call.c))

HasRecovered(g) ==
    /\ goroutines[g].pc = "done"
    /\ goroutines[g].call.op = "Register"
    /\ goroutines[g].ret # Nil

AllReturned == \A g \in DOMAIN goroutines : goroutines[g].pc = "done"

\* C36: a Register that panics on a duplicate id has released registryMu
\* when the panic is recovered, the registry is the same from the moment
\* it took the lock to the recovery, and every call made besides or after
\* it (Register, GetByID, GetAll, IDs, Clear) returns.
C36_PanicReleasesLock ==
    /\ [](\A g \in DOMAIN goroutines :
             goroutines[g].pc \in {"unwound", "done"} => ~HoldsLock(g))
    /\ [][(\E g \in DOMAIN goroutines :
              \/ FailingRegister(g)
              \/ (goroutines[g].pc = "unwound" /\ goroutines'[g].pc = "done"))
          => registry' = registry]_vars
    /\ (\E g \in DOMAIN goroutines : HasRecovered(g)) ~> AllReturned

\* the second Register of checker-b has panicked and recovered, and the IDs
\* call that took the lock after it has returned the one id registered
C36_Witness ==
    /\ Len(goroutines) = 3
    /\ AllReturned
    /\ goroutines[1].call.op = "Register" /\ goroutines[1].ret = Nil
    /\ HasRecovered(2)
    /\ goroutines[3].call.op = "IDs"
    /\ goroutines[3].ret = <<"checker-b">>
    /\ registry = Store(EmptyRegistry, "checker-b", goroutines[1].call.c)

(***************************************************************************)
(* Parser: tool results that repeat an id or have none (C37).              *)
(***************************************************************************)
RepeatedResultIDs ==
    {id \in {CallAt(p).ID : p \in ToolUsePositions} :
        id # "" /\ Cardinality(ToolResultPositions(id)) >= 2}

CallsWithID(id) == {n \in 1..Len(t.ToolCalls) : t.ToolCalls[n].ID = id}

\* C37: when several tool_result blocks carry one tool_use_id, every
\* ToolCall with that id has the text and the error flag of the last of
\* them in input order; a tool_result block with an empty tool_use_id is
\* ignored, so a ToolCall with an empty id stays without a result.
C37_LastRepeatedResultWins ==
    ParseOK =>
        /\ \A id \in RepeatedResultIDs :
              \A n \in CallsWithID(id) : TakenFrom(t.ToolCalls[n], LastResult(id))
        /\ \A n \in CallsWithID("") : Uncorrelated(t.ToolCalls[n])

\* two user lines carry a result for one id, the calls with the id have the
\* later one, which differs from the earlier; a result without an id is in
\* the input and the call without an id has none
C37_Witness ==
    /\ ParseOK
    /\ \E id \in RepeatedResultIDs :
          /\ Cardinality(CallsWithID(id)) >= 2
          /\ \E r \in ToolResultPositions(id) :
                /\ r # LastResult(id)
                /\ ResultAt(r).Content # ResultAt(LastResult(id)).Content
                /\ \A n \in CallsWithID(id) : ~TakenFrom(t.ToolCalls[n], r)
    /\ ToolResultPositions("") # {}
    /\ CallsWithID("") # {}

(***************************************************************************)
(* Run: the transcript across the Check calls (C33).                       *)
(***************************************************************************)
\* C33: no step of a Check changes the transcript (scalar fields, Events,
\* ToolCalls), every Check of a Run has seen the transcript the caller
\* passed, and a checker returns the same violations whichever checkers
\* ran before it.
C33_CheckLeavesTranscript ==
    /\ [][t' = t]_vars
    /\ [](\A i \in 1..Len(runs) :
             /\ runs[i].t = t
             /\ \A j \in 1..Len(runs) :
                   runs[i].checker = runs[j].checker =>
                       runs[i].violations = runs[j].violations)

\* commit-after-edit has run first and again after parallel-worktree, on a
\* transcript for which both return a violation
C33_Witness ==
    /\ pc = "done"
    /\ Len(runs) = 3
    /\ runs[1].checker = CommitAfterEditID
    /\ runs[2].checker = ParallelWorktreeID
    /\ runs[3].checker = CommitAfterEditID
    /\ runs[1].violations # <<>>
    /\ runs[2].violations # <<>>
    /\ Len(t.ToolCalls) = 2

(***************************************************************************)
(* Reading the result of a no-todowrite run (C32).                         *)
(***************************************************************************)
NtDone == checker = NoTodoWriteID /\ pc = "done"

\* 0-based indices of the calls of the TodoWrite tool
TodoWriteCalls == {k \in Idx : At(k).Name = "TodoWrite"}

\* the n-th of them in tool-call order
NthTodoWrite(n) ==
    CHOOSE k \in TodoWriteCalls :
        Cardinality({j \in TodoWriteCalls : j < k}) = n - 1

\* C32: the result has exactly one violation per call of the tool named
\* TodoWrite, in tool-call order, each of severity Error with the id and
\* the event UUID of its call, and nothing for any other tool name.
C32_OneErrorPerTodoWrite ==
    NtDone =>
        /\ Len(violations) = Cardinality(TodoWriteCalls)
        /\ \A n \in 1..Len(violations) :
              /\ violations[n].CheckerID = NoTodoWriteID
              /\ violations[n].Severity = SeverityError
              /\ violations[n].ToolCallID = At(NthTodoWrite(n)).ID
              /\ violations[n].EventUUID = At(NthTodoWrite(n)).EventUUID

\* Read, TodoWrite, todowrite, TodoWrite: two violations, for the second
\* and the fourth call
C32_Witness ==
    /\ NtDone
    /\ Len(toolCalls) = 4
    /\ TodoWriteCalls = {1, 3}
    /\ At(2).Name = "todowrite"
    /\ At(1).ID # At(3).ID
    /\ Len(violations) = 2
    /\ violations[1].ToolCallID = At(1).ID
    /\ violations[2].ToolCallID = At(3).ID

(***************************************************************************)
(* Reading the result of extractBehaviors (C34).                           *)
(***************************************************************************)
EbDone == checker = ExtractBehaviorsID /\ pc = "done"

IsFence(n) == data[n].ticks = 3

\* the fences before line n, in pairs: an opening fence and its closing one
FencesBefore(n) == Cardinality({k \in 1..(n - 1) : IsFence(k)})

\* line n is no fence and stands after an even number of fences
OutsideCodeBlock(n) == ~IsFence(n) /\ FencesBefore(n) % 2 = 0

\* the n-th line yields a behavior for a keyword of words
Yields(n, words) ==
    /\ HasWord(data[n], words)
    /\ ByteLen(ReplaceBold(data[n].words)) >= 10

ProhibitingLines ==
    {n \in 1..Len(data) : OutsideCodeBlock(n) /\ Yields(n, {"NEVER", "never"})}

RequiringLines ==
    {n \in 1..Len(data) :
        OutsideCodeBlock(n) /\ Yields(n, {"MUST", "must", "ALWAYS", "always"})}

\* C34 (as claimed): the lines between an opening fence and its closing
\* fence are skipped, and every line outside a code block, also after a
\* code block has been closed, gives its NEVER / MUST / ALWAYS behavior.
C34_LinesOutsideBlocksScanned ==
    EbDone =>
        /\ Len(returned.prohibited) = Cardinality(ProhibitingLines)
        /\ Len(returned.required) = Cardinality(RequiringLines)

(***************************************************************************)
(* Runner.Run: the cleanup commands (C38).                                 *)
(***************************************************************************)
RunnerReturned == checker = RunnerID /\ pc = "returned"

CommandsOf(entries) == [k \in 1..Len(entries) |-> entries[k].cmd]

\* C38 (as claimed): once Run has started a setup command of the scenario,
\* it has run the cleanup commands of the scenario when it returns, on
\* every path.
C38_CleanupOnEveryPath ==
    RunnerReturned /\ Executed("setup") # <<>> =>
        CommandsOf(Executed("cleanup")) = call.s.CleanupCommands

====
